---- MODULE Spec2Model ----
(***************************************************************************)
(* A model of lugo, a Go library that embeds a Lua interpreter:            *)
(*   - the middleware chain that RegisterFunction builds (SpecMw),         *)
(*   - LoadFile / Get / DoString with hooks and the sandbox (SpecCfg),     *)
(*   - the ConfigWatcher with its debounce timer and reload (SpecWatch).   *)
(* The three parts use disjoint groups of variables; every specification   *)
(* holds the variables of the other parts at their initial value.          *)
(***************************************************************************)
EXTENDS Integers, Sequences, FiniteSets, TLC

VARIABLES
    \* ---- middleware chain (Config.middlewares, registered functions)
    middlewares,    \* c.middlewares: sequence of middleware ids, New's order
    fnChain,        \* Lua global name -> the LuaFunction registered under it
    callPc,         \* position of the call in progress
    callRest,       \* part of the chain that has not been entered yet
    callActive,     \* middlewares entered and not yet left (innermost last)
    callArgs,       \* how the Lua arguments of the call convert
    callFn,         \* how the Go function of the call ends
    callResult,     \* what createLuaFunction hands back to Lua
    order,          \* what the call did, in order (the test's "order" slice)
    \* ---- Config: hooks, sandbox, the Lua state
    hooks,          \* c.hooks: hook type -> hooks in registration order
    sandbox,        \* c.sandbox
    muReaders,      \* c.mu: number of read locks held
    G,              \* the global table of c.L: name -> value
    memLimit,       \* the limit given to c.L.SetMx, in KB (0: none)
    preloadNil,     \* modules preloaded with a nil loader
    opKind,         \* what the loading goroutine runs: LoadFile or DoString
    lfPc,           \* position of that operation
    lfFile,         \* the script it executes
    lfSnap,         \* runHooks: hooks of the snapshot still to invoke
    lfStartHooks,   \* the load hooks registered when LoadFile was called
    lfResult,       \* what the operation returns
    hookCalls,      \* hooks invoked by the LoadFile and the execution, in order
    usingL,         \* goroutines that are inside a call on c.L
    getPc,          \* position of the Get running on another goroutine
    getResult,      \* what that Get returns
    \* ---- ConfigWatcher
    wpaths,         \* w.paths: the set of absolute paths
    added,          \* paths added and not removed, as the callers were told
    wCall,          \* the AddPath or RemovePath that has just returned
    now,            \* the clock
    timers,         \* every timer time.AfterFunc made, in order
    debounceTimer,  \* watch's debounceTimer: index in timers, 0 for nil
    evCount,        \* number of events the watch goroutine has handled
    stopClosed,     \* w.stopChan is closed
    eventsClosed,   \* the channels of the file watcher are closed
    closePc,        \* position of Close
    closePanicked,  \* a call of Close panicked
    watchPc,        \* the watch goroutine: in its select, or returned
    reloadOf,       \* the timer whose reload holds reloadMu, 0 for none
    reloadPc,       \* position of that reload
    reloadPaths,    \* paths the reload has still to load
    reloadSet,      \* the paths the reload copied from w.paths
    reloadErr,      \* err of the reload
    reloadLog,      \* paths the reload has called LoadFile on, in order
    onReloadArg,    \* what the reload passed to OnReload
    onReloadSet,    \* wcfg.OnReload is not nil
    \* ---- the Lua stack of c.L as the stack methods use it
    stack,          \* the values on the stack, the top last
    pushed,         \* the Go values pushed and not yet popped or cleared
    stCall,         \* the stack method that has just returned
    \* ---- Get: the global it reads and the struct it fills
    luaGlobal,      \* the value of the global named in the call
    tgtType,        \* the struct type target points to
    tgtVals,        \* the values of the fields of *target
    getOut,         \* what the call of Get returned
    \* ---- RegisterFunctionTable
    rftPc,          \* position of the call
    rftName,        \* its argument name
    rftFuncs,       \* its argument funcs
    rftSnap,        \* runHooks: hooks of the copy still to invoke
    rftResult,      \* what the call returns
    rftLog,         \* the hooks invoked and the SetGlobal, in order
    rftG0,          \* the globals when the call began
    rftBefore,      \* the BeforeExec hooks registered when the call began
    rftAfter,       \* the AfterExec hooks registered when the global was set
    \* ---- RegisterLuaFunctionWithOptions
    middlewareMap,  \* c.middlewareMap: the names that have a middleware
    optFn,          \* the options of the function registered
    optResult,      \* what the last registration returned
    ocPc,           \* position of the call of the wrapper
    ocRest,         \* the middlewares of the chain not yet entered
    ocBeforeErr,    \* BeforeCall returns an error in this call
    ocFn,           \* how fn ends in this call
    ocOrder,        \* what the call ran, in order
    ocResult,       \* how the call ended for Lua
    \* ---- ComposeFunctions
    composed,       \* the composition registered: its function names
    cmpCall,        \* the last call of ComposeFunctions and its result
    ccPc,           \* position of the call of the composition
    ccRest,         \* the function names the loop has still to call
    ccArgs,         \* the arguments of the caller
    ccVal,          \* result: the values for the next function
    ccLog,          \* the functions called with their arguments, in order
    ccResult,       \* how the call ended for Lua
    \* ---- EnvManager
    environments,   \* em.environments: name -> Environment
    activeEnv,      \* em.activeEnv
    luaVars,        \* the globals the configuration sets: name -> setter
    aePc,           \* position of ActivateEnvironment
    aeName,         \* its argument
    aeSteps,        \* the steps it has still to do
    aeLog,          \* the steps it has done, in order
    aeStart,        \* the globals when it was called
    aeResult,       \* what it returns
    \* ---- SchemaValidator
    sv,             \* the validator and its rules
    svCfg,          \* the value handed to Validate
    svResult,       \* what Validate returns
    \* ---- Generator
    buffer,         \* g.buffer: the pieces written
    indent,         \* g.indent
    began,          \* g.indent when each line of the buffer was begun
    gCall,          \* the method called last and whether it panicked
    gCalls,         \* the calls since the buffer was empty
    \* ---- Config.Call
    lstack,         \* the stack of c.L, the bottom first
    clSeen,         \* the Call that has just returned
    \* ---- registration in a namespace
    tables,         \* the Lua tables, the table of the globals first
    functionMetadata, \* the names c.functionMetadata holds
    nsSeen,         \* the registration that has just returned
    \* ---- PluginManager
    plugins,        \* pm.plugins: the *Plugin of each name
    lstates,        \* the Lua states of the plugins: "open" or "closed"
    pmMu,           \* pm.mu: a writer holds it, the number of readers
    lpPc,           \* position of LoadPlugins
    lpRest,         \* the entries of the directory not yet loaded
    lpState,        \* the Lua state of the plugin being loaded
    lpCalls,        \* the api.register_function calls the chunk has yet to make
    gpPc,           \* position of GetPlugin / CallPluginFunction
    gpName,         \* the plugin name it was called with
    gpCall,         \* the function CallPluginFunction is to call, or ""
    gpPlugin,       \* what GetPlugin read
    pmAccess,       \* the last access to pm.plugins
    cpSeen          \* what CallPluginFunction did

mwVars == <<middlewares, fnChain, callPc, callRest, callActive, callArgs,
            callFn, callResult, order>>

cfgVars == <<hooks, sandbox, muReaders, G, memLimit, preloadNil, opKind,
             lfPc, lfFile, lfSnap, lfStartHooks, lfResult, hookCalls, usingL,
             getPc, getResult>>

wVars == <<wpaths, added, wCall, now, timers, debounceTimer, evCount,
           stopClosed, eventsClosed, closePc, closePanicked, watchPc,
           reloadOf, reloadPc, reloadPaths, reloadSet, reloadErr, reloadLog,
           onReloadArg, onReloadSet>>

stVars == <<stack, pushed, stCall>>

\* The parts that the first three leave alone.
gtVars == <<luaGlobal, tgtType, tgtVals, getOut>>

rftVars == <<rftPc, rftName, rftFuncs, rftSnap, rftResult, rftLog, rftG0,
             rftBefore, rftAfter>>

optVars == <<middlewareMap, optFn, optResult, ocPc, ocRest, ocBeforeErr,
             ocFn, ocOrder, ocResult>>

cmpVars == <<composed, cmpCall, ccPc, ccRest, ccArgs, ccVal, ccLog, ccResult>>

envVars == <<environments, activeEnv, luaVars, aePc, aeName, aeSteps, aeLog,
             aeStart, aeResult>>

svVars == <<sv, svCfg, svResult>>
genVars == <<buffer, indent, began, gCall, gCalls>>
clVars == <<lstack, clSeen>>
nsVars == <<tables, functionMetadata, nsSeen>>
pmVars == <<plugins, lstates, pmMu, lpPc, lpRest, lpState, lpCalls, gpPc, gpName, gpCall, gpPlugin, pmAccess, cpSeen>>
extVars == <<stVars, gtVars, rftVars, optVars, cmpVars, envVars, svVars, genVars, clVars, nsVars, pmVars>>

coreVars == <<mwVars, cfgVars, wVars>>

vars == <<coreVars, extVars>>

--------------------------------------------------------------------------
\* Bounds of the model.
MaxMw == 3

MaxHooks == 2
MaxEvents == 2
MaxTime == 4
\* wcfg.DebounceInterval, in ticks of the clock.
DebounceInterval == 2
MaxStack == 3
MaxArr == 2
MaxNames == 2
MaxFuncs == 3
MaxIncludes == 2
MaxNum == 3
MaxCalls == 4
MaxRets == 2
MaxTables == 3
MaxEntries == 2
MaxLStates == 2

MwIds == 1..MaxMw
FnNames == {"test", "other"}

\* Sequences over S of length at most n.
SeqUpTo(S, n) == UNION {[1..k -> S] : k \in 0..n}

\* A LuaFunction is the sequence of the wrappers a call goes through,
\* outermost first; the last element is the closure of wrapGoFunction.
GoClosure == <<"go", 0>>
MwWrap(m) == <<"mw", m>>

--------------------------------------------------------------------------
\* wrapGoFunction: the closure that converts the arguments, calls the Go
\* function and converts the results.
wrapGoFunction == <<GoClosure>>

\* The same loop run from the first middleware to the last, which would
\* leave the last middleware outermost.
RECURSIVE ApplyMiddlewaresForward(_, _, _)
ApplyMiddlewaresForward(mws, i, final) ==
    IF i = 0 THEN final
    ELSE <<MwWrap(mws[i])>> \o ApplyMiddlewaresForward(mws, i - 1, final)

\* The loop of RegisterFunction from index i down to 1:
\*   for i := len(c.middlewares) - 1; i >= 0; i-- { final = c.middlewares[i](final) }
RECURSIVE ApplyMiddlewares(_, _, _)
ApplyMiddlewares(mws, i, final) ==
    IF i = 0 THEN final
    ELSE ApplyMiddlewares(mws, i - 1, <<MwWrap(mws[i])>> \o final)

\* RegisterFunction(ctx, name, fn): an fn that is not a function is refused
\* and nothing is registered.
RegisterFunction(name, isFunc) ==
    /\ UNCHANGED <<cfgVars, wVars, extVars>>
    /\ callPc = "idle"
    /\ fnChain' = [fnChain EXCEPT ![name] =
                     IF isFunc
                     THEN ApplyMiddlewares(middlewares, Len(middlewares),
                                           wrapGoFunction)
                     ELSE @]
    /\ UNCHANGED <<middlewares, callPc, callRest, callActive, callArgs,
                   callFn, callResult, order>>

\* A Lua script calls the global `name`: createLuaFunction's closure runs
\* fn(ctx, L). args says how the arguments convert in wrapGoFunction:
\*   "ok"       every luaToGo succeeds and yields the parameter's type,
\*   "err"      a luaToGo returns an error,
\*   "mismatch" luaToGo yields a value of another type than the parameter's
\*              (a named type), and reflect's Call panics.
\* fn says how the Go function ends: it returns, returns a non-nil error,
\* or panics.
CallFromLua(name, args, fn) ==
    /\ UNCHANGED <<cfgVars, wVars, extVars>>
    /\ callPc = "idle"
    /\ fnChain[name] # <<>>
    /\ callPc' = "down"
    /\ callRest' = fnChain[name]
    /\ callActive' = <<>>
    /\ callArgs' = args
    /\ callFn' = fn
    /\ callResult' = "none"
    /\ order' = <<>>
    /\ UNCHANGED <<middlewares, fnChain>>

\* A middleware of the kind the tests use: it records, calls next once,
\* records, and returns what next returned.
EnterMiddleware ==
    /\ UNCHANGED <<cfgVars, wVars, extVars>>
    /\ callPc = "down"
    /\ Head(callRest)[1] = "mw"
    /\ order' = Append(order, <<"before", Head(callRest)[2]>>)
    /\ callActive' = Append(callActive, Head(callRest)[2])
    /\ callRest' = Tail(callRest)
    /\ UNCHANGED <<middlewares, fnChain, callPc, callArgs, callFn, callResult>>

\* The closure of wrapGoFunction: convert the arguments, call, convert the
\* results.
RunGoClosure ==
    /\ UNCHANGED <<cfgVars, wVars, extVars>>
    /\ callPc = "down"
    /\ Head(callRest)[1] = "go"
    /\ callRest' = Tail(callRest)
    /\ \/ /\ callArgs = "err"
          /\ callPc' = "up"
          /\ callResult' = "err"
          /\ order' = order
       \/ /\ callArgs = "mismatch"
          /\ callPc' = "panic"
          /\ callResult' = "none"
          /\ order' = order
       \/ /\ callArgs = "ok"
          /\ order' = Append(order, <<"execute", 0>>)
          /\ callPc' = IF callFn = "panic" THEN "panic" ELSE "up"
          /\ callResult' = IF callFn = "panic" THEN "none" ELSE callFn
    /\ UNCHANGED <<middlewares, fnChain, callActive, callArgs, callFn>>

\* next returned: the innermost middleware still active runs the code after
\* its call of next and returns.
LeaveMiddleware ==
    /\ UNCHANGED <<cfgVars, wVars, extVars>>
    /\ callPc = "up"
    /\ callActive # <<>>
    /\ order' = Append(order, <<"after", callActive[Len(callActive)]>>)
    /\ callActive' = SubSeq(callActive, 1, Len(callActive) - 1)
    /\ UNCHANGED <<middlewares, fnChain, callPc, callRest, callArgs, callFn,
                   callResult>>

\* createLuaFunction: the results are pushed, or the error is raised in Lua.
ReturnToLua ==
    /\ UNCHANGED <<cfgVars, wVars, extVars>>
    /\ callPc = "up"
    /\ callActive = <<>>
    /\ callPc' = "done"
    /\ callResult' = IF callResult = "ok" THEN "pushed" ELSE "raised"
    /\ UNCHANGED <<middlewares, fnChain, callRest, callActive, callArgs,
                   callFn, order>>

\* A panic unwinds the middlewares without running the code after their
\* call of next; the deferred recover of createLuaFunction raises a Lua
\* error.
RecoverPanic ==
    /\ UNCHANGED <<cfgVars, wVars, extVars>>
    /\ callPc = "panic"
    /\ callPc' = "done"
    /\ callActive' = <<>>
    /\ callResult' = "raised"
    /\ UNCHANGED <<middlewares, fnChain, callRest, callArgs, callFn, order>>

\* The script goes on after the call.
CallReturned ==
    /\ UNCHANGED <<cfgVars, wVars, extVars>>
    /\ callPc = "done"
    /\ callPc' = "idle"
    /\ UNCHANGED <<middlewares, fnChain, callRest, callActive, callArgs,
                   callFn, callResult, order>>

--------------------------------------------------------------------------
\* Config: the Lua state, the sandbox, the hooks.

HookTypes == {"BeforeLoad", "AfterLoad", "BeforeExec", "AfterExec"}

\* Lua values. A table holds its fields; a field that is absent is nil.
NoFields == [n \in {} |-> 0]
Nil == [kind |-> "nil", t |-> NoFields]
Func == [kind |-> "function", t |-> NoFields]
Table(content) == [kind |-> "table", t |-> content]
Lib(names) == Table([n \in names |-> Func])

\* table[name], nil when table is no table or has no such field.
Field(v, name) ==
    IF v.kind = "table" /\ name \in DOMAIN v.t THEN v.t[name] ELSE Nil

safeFuncs == {"assert", "error", "ipairs", "next", "pairs", "select",
              "tonumber", "tostring", "type", "unpack"}
safeLibs == {"string", "table", "math"}
safeOSFuncs == {"clock", "date", "difftime", "time"}
fileGlobals == {"io", "dofile", "loadfile", "load"}
OsFileOps == {"remove", "rename", "tmpname"}
OsLibNames == safeOSFuncs \cup OsFileOps
                 \cup {"execute", "exit", "getenv", "setenv", "setlocale"}
IoLibNames == {"open", "close", "lines", "popen", "read", "write"}
GlobalNames == safeFuncs \cup safeLibs \cup fileGlobals
                  \cup {"os", "require", "_G", "config"}

\* lua.NewState(): every standard library is open.
NewState ==
    [n \in GlobalNames |->
        CASE n = "io" -> Lib(IoLibNames)
          [] n = "os" -> Lib(OsLibNames)
          [] n \in safeLibs -> Lib({"f"})
          [] n = "_G" -> [kind |-> "globals", t |-> NoFields]
          [] n = "config" -> Nil
          [] OTHER -> Func]

\* Sandbox.MaxMemory values, in bytes: none, just below and at the minimum,
\* and New's default.
MinMemoryKB == 100
DefaultMaxMemory == 104857600
MemSizes == {0, MinMemoryKB * 1024 - 1, MinMemoryKB * 1024, DefaultMaxMemory}
Sandboxes == [EnableFileIO : BOOLEAN, EnableNetworking : BOOLEAN,
              EnableSyscalls : BOOLEAN, MaxMemory : MemSizes]
\* The sandbox New sets when WithSandbox is not given.
DefaultSandbox == [EnableFileIO |-> FALSE, EnableNetworking |-> FALSE,
                   EnableSyscalls |-> FALSE, MaxMemory |-> DefaultMaxMemory]

\* The scripts a file or a DoString argument holds.
\*   set_config   config = {}
\*   io_open      local file = io.open("test.txt", "w")
\*   os_remove    os.remove("test.txt")
\*   error        error("custom error"), or a file that cannot be read
Scripts == {"set_config", "io_open", "os_remove", "error"}

\* c.L.DoString / c.L.DoFile: the script resolves global names in the
\* global table g. Indexing nil and calling nil raise an error.
ScriptOk(script, g) ==
    CASE script = "set_config" -> TRUE
      [] script = "io_open" -> Field(g["io"], "open").kind = "function"
      [] script = "os_remove" -> Field(g["os"], "remove").kind = "function"
      [] OTHER -> FALSE

ScriptGlobals(script, g) ==
    IF script = "set_config"
    THEN [g EXCEPT !["config"] = Table(NoFields)]
    ELSE g

\* The os table that applySandboxRestrictions puts in the restricted table.
osTable(sb, g) ==
    IF sb.EnableSyscalls
    THEN Table([n \in {m \in safeOSFuncs : Field(g["os"], m) # Nil} |->
                   Field(g["os"], n)])
    ELSE Table(NoFields)

\* The table `restricted` that applySandboxRestrictions builds.
restrictedTable(sb, g) ==
    Table([n \in safeFuncs \cup safeLibs \cup {"require"}
                    \cup (IF sb.EnableFileIO THEN {} ELSE {"os"}) |->
              CASE n = "os" -> osTable(sb, g)
                [] n = "require" -> Func
                [] OTHER -> g[n]])

limitInK(sb) == sb.MaxMemory \div 1024
\* The same without the test for zero.
memoryTooSmallZero(sb) == limitInK(sb) < MinMemoryKB
memoryTooSmall(sb) == sb.MaxMemory > 0 /\ limitInK(sb) < MinMemoryKB

\* The same without the removal of load.
sandboxGlobalsKeepLoad(sb, g) ==
    [n \in GlobalNames |->
        CASE n \in (fileGlobals \ {"load"}) /\ ~sb.EnableFileIO -> Nil
          [] n = "_G" /\ ~memoryTooSmall(sb) -> restrictedTable(sb, g)
          [] OTHER -> g[n]]

\* The global table after applySandboxRestrictions: the file globals are
\* set to nil when file I/O is disabled, and the field _G of the global
\* table is set to the restricted table unless the memory limit is refused.
sandboxGlobals(sb, g) ==
    [n \in GlobalNames |->
        CASE n \in fileGlobals /\ ~sb.EnableFileIO -> Nil
          [] n = "_G" /\ ~memoryTooSmall(sb) -> restrictedTable(sb, g)
          [] OTHER -> g[n]]

\* The effect of applySandboxRestrictions on the Lua state.
applySandboxRestrictions ==
    /\ G' = sandboxGlobals(sandbox, G)
    /\ preloadNil' = IF sandbox.EnableNetworking THEN preloadNil
                     ELSE preloadNil \cup {"socket"}
    /\ memLimit' = IF sandbox.MaxMemory > 0 /\ ~memoryTooSmall(sandbox)
                   THEN limitInK(sandbox) ELSE memLimit

\* runHooks takes a copy of the hooks of all types instead of one.
runHooksAnyType(hookType) ==
    hooks["BeforeLoad"] \o hooks["AfterLoad"] \o hooks["BeforeExec"]
        \o hooks["AfterExec"]

\* runHooks goes through the hooks from the last registered to the first.
runHooksReversed(hookType) ==
    [i \in 1..Len(hooks[hookType]) |->
        hooks[hookType][Len(hooks[hookType]) + 1 - i]]

\* runHooks: under the read lock, the hooks of the type are copied.
runHooks(hookType) == hooks[hookType]

\* RegisterHook with a run that ranges over c.hooks itself: the hook is
\* appended to the run in progress as well.
RegisterHookIntoRun(hookType) ==
    /\ muReaders = 0
    /\ Len(hooks[hookType]) < MaxHooks
    /\ hooks' = [hooks EXCEPT ![hookType] =
                    Append(@, <<hookType, Len(@) + 1>>)]
    /\ lfSnap' = IF \/ lfPc = "before" /\ hookType = "BeforeLoad"
                    \/ lfPc = "after" /\ hookType = "AfterLoad"
                 THEN Append(lfSnap, <<hookType, Len(hooks[hookType]) + 1>>)
                 ELSE lfSnap
    /\ UNCHANGED <<sandbox, muReaders, G, memLimit, preloadNil, opKind, lfPc,
                   lfFile, lfStartHooks, lfResult, hookCalls, usingL,
                   getPc, getResult>>
    /\ UNCHANGED <<mwVars, wVars, extVars>>

\* RegisterHook(hookType, hook): under the write lock, the hook is appended.
\* A hook is named by its type and its rank among the hooks of its type.
RegisterHook(hookType) ==
    /\ muReaders = 0
    /\ Len(hooks[hookType]) < MaxHooks
    /\ hooks' = [hooks EXCEPT ![hookType] =
                    Append(@, <<hookType, Len(@) + 1>>)]
    /\ UNCHANGED <<sandbox, muReaders, G, memLimit, preloadNil, opKind, lfPc,
                   lfFile, lfSnap, lfStartHooks, lfResult, hookCalls, usingL,
                   getPc, getResult>>
    /\ UNCHANGED <<mwVars, wVars, extVars>>

\* LoadFile(ctx, filename) is called: runHooks(BeforeLoad) copies the hooks.
LoadFile(file) ==
    /\ lfPc = "idle"
    /\ opKind' = "LoadFile"
    /\ lfPc' = "before"
    /\ lfFile' = file
    /\ lfSnap' = runHooks("BeforeLoad")
    /\ lfStartHooks' = [t \in {"BeforeLoad", "AfterLoad"} |-> hooks[t]]
    /\ lfResult' = "none"
    /\ hookCalls' = <<>>
    /\ UNCHANGED <<hooks, sandbox, muReaders, G, memLimit, preloadNil, usingL,
                   getPc, getResult>>
    /\ UNCHANGED <<mwVars, wVars, extVars>>

\* runHooks invokes the next hook of its copy; a hook that returns an error
\* ends the loop. A failing BeforeLoad hook makes LoadFile return an
\* ErrExecution error, a failing AfterLoad hook is returned as it is.
InvokeHook(fails) ==
    /\ lfPc \in {"before", "after"}
    /\ lfSnap # <<>>
    /\ hookCalls' = Append(hookCalls, Head(lfSnap))
    /\ IF fails
       THEN /\ lfPc' = "done"
            /\ lfSnap' = <<>>
            /\ lfResult' = IF lfPc = "before" THEN "ErrExecution"
                           ELSE "hook error"
       ELSE /\ lfPc' = lfPc
            /\ lfSnap' = Tail(lfSnap)
            /\ lfResult' = lfResult
    /\ UNCHANGED <<hooks, sandbox, muReaders, G, memLimit, preloadNil, opKind,
                   lfFile, lfStartHooks, usingL, getPc, getResult>>
    /\ UNCHANGED <<mwVars, wVars, extVars>>

\* The BeforeLoad hooks returned nil: LoadFile applies the sandbox and, when
\* that succeeds, enters c.L.DoFile.
ApplySandboxAndEnterDoFile ==
    /\ lfPc = "before"
    /\ lfSnap = <<>>
    /\ applySandboxRestrictions
    /\ IF memoryTooSmall(sandbox)
       THEN /\ lfPc' = "done"
            /\ lfResult' = "ErrSandbox"
            /\ usingL' = usingL
       ELSE /\ lfPc' = "dofile"
            /\ lfResult' = lfResult
            /\ usingL' = usingL \cup {"loader"}
    /\ UNCHANGED <<hooks, sandbox, muReaders, opKind, lfFile, lfSnap,
                   lfStartHooks, hookCalls, getPc, getResult>>
    /\ UNCHANGED <<mwVars, wVars, extVars>>

\* c.L.DoFile returns: on an error LoadFile returns ErrExecution, otherwise
\* runHooks(AfterLoad) copies the hooks.
LeaveDoFile ==
    /\ lfPc = "dofile"
    /\ usingL' = usingL \ {"loader"}
    /\ G' = ScriptGlobals(lfFile, G)
    /\ IF ScriptOk(lfFile, G)
       THEN /\ lfPc' = "after"
            /\ lfSnap' = runHooks("AfterLoad")
            /\ lfResult' = lfResult
            /\ hookCalls' = Append(hookCalls, <<"exec", 0>>)
       ELSE /\ lfPc' = "done"
            /\ lfSnap' = <<>>
            /\ lfResult' = "ErrExecution"
            /\ hookCalls' = hookCalls
    /\ UNCHANGED <<hooks, sandbox, muReaders, memLimit, preloadNil, opKind,
                   lfFile, lfStartHooks, getPc, getResult>>
    /\ UNCHANGED <<mwVars, wVars, extVars>>

\* Every AfterLoad hook returned nil: LoadFile returns nil.
AfterHooksDone ==
    /\ lfPc = "after"
    /\ lfSnap = <<>>
    /\ lfPc' = "done"
    /\ lfResult' = "nil"
    /\ UNCHANGED <<hooks, sandbox, muReaders, G, memLimit, preloadNil, opKind,
                   lfFile, lfSnap, lfStartHooks, hookCalls, usingL, getPc,
                   getResult>>
    /\ UNCHANGED <<mwVars, wVars, extVars>>

\* DoString(script): c.L.DoString runs the script; nothing else is done.
DoString(script) ==
    /\ lfPc = "idle"
    /\ opKind' = "DoString"
    /\ lfPc' = "done"
    /\ lfFile' = script
    /\ lfResult' = IF ScriptOk(script, G) THEN "nil" ELSE "ErrExecution"
    /\ G' = ScriptGlobals(script, G)
    /\ hookCalls' = <<>>
    /\ UNCHANGED <<hooks, sandbox, muReaders, memLimit, preloadNil, lfSnap,
                   lfStartHooks, usingL, getPc, getResult>>
    /\ UNCHANGED <<mwVars, wVars, extVars>>

\* The caller of LoadFile or DoString has its result and goes on.
OperationReturned ==
    /\ lfPc = "done"
    /\ opKind' = "none"
    /\ lfPc' = "idle"
    /\ lfFile' = "error"
    /\ lfResult' = "none"
    /\ lfStartHooks' = [t \in {"BeforeLoad", "AfterLoad"} |-> <<>>]
    /\ hookCalls' = <<>>
    /\ UNCHANGED <<hooks, sandbox, muReaders, G, memLimit, preloadNil, lfSnap,
                   usingL, getPc, getResult>>
    /\ UNCHANGED <<mwVars, wVars, extVars>>

\* Get(ctx, "config", target) on another goroutine takes the read lock and
\* reads the global.
GetBegin ==
    /\ getPc = "idle"
    /\ getPc' = "reading"
    /\ muReaders' = muReaders + 1
    /\ usingL' = usingL \cup {"getter"}
    /\ getResult' = "none"
    /\ UNCHANGED <<hooks, sandbox, G, memLimit, preloadNil, opKind, lfPc,
                   lfFile, lfSnap, lfStartHooks, lfResult, hookCalls>>
    /\ UNCHANGED <<mwVars, wVars, extVars>>

\* Get returns: ErrNotFound for a nil global, otherwise the table is
\* validated and decoded; the deferred RUnlock releases the lock.
GetEnd ==
    /\ getPc = "reading"
    /\ getPc' = "idle"
    /\ muReaders' = muReaders - 1
    /\ usingL' = usingL \ {"getter"}
    /\ getResult' = IF G["config"] = Nil THEN "ErrNotFound" ELSE "nil"
    /\ UNCHANGED <<hooks, sandbox, G, memLimit, preloadNil, opKind, lfPc,
                   lfFile, lfSnap, lfStartHooks, lfResult, hookCalls>>
    /\ UNCHANGED <<mwVars, wVars, extVars>>

--------------------------------------------------------------------------
\* ConfigWatcher.

\* Paths as the caller writes them, and what filepath.Abs makes of them
\* (the working directory is /w).
RawPaths == {"a.lua", "./a.lua", "/w/a.lua", "b.lua"}
Abs(path) == IF path = "b.lua" THEN "/w/b.lua" ELSE "/w/a.lua"
IsAbs(path) == path = "/w/a.lua"
AbsPaths == {Abs(p) : p \in RawPaths}

\* fsnotify operations. An event carries a set of them (a bit mask).
EventOps == {{"Write"}, {"Create"}, {"Remove"}, {"Rename"}, {"Chmod"},
             {"Write", "Chmod"}}

\* The handler arms the timer for an event of any kind.
IsAnyOp(op) == TRUE

\* event.Op&(fsnotify.Write|fsnotify.Create) != 0
IsWriteOrCreate(op) == op \cap {"Write", "Create"} # {}

\* The permutations of a set, as sequences: the orders in which a range
\* over a Go map can visit its keys.
Perms(S) ==
    {s \in [1..Cardinality(S) -> S] :
        \A i, j \in 1..Cardinality(S) : i # j => s[i] # s[j]}

\* AddPath that records the path before the file watcher accepted it.
addPathRecordFirst(paths, path, cwdOk, fsOk) ==
    IF ~IsAbs(path) /\ ~cwdOk THEN [paths |-> paths, err |-> "err"]
    ELSE IF Abs(path) \in paths THEN [paths |-> paths, err |-> "nil"]
    ELSE [paths |-> paths \cup {Abs(path)},
          err |-> IF fsOk THEN "nil" ELSE "err"]

\* AddPath: w.paths after the call and what the call returns. cwdOk: the
\* working directory can be read (filepath.Abs of a relative path needs
\* it); fsOk: w.watcher.Add succeeds.
addPath(paths, path, cwdOk, fsOk) ==
    IF ~IsAbs(path) /\ ~cwdOk THEN [paths |-> paths, err |-> "err"]
    ELSE IF Abs(path) \in paths THEN [paths |-> paths, err |-> "nil"]
    ELSE IF ~fsOk THEN [paths |-> paths, err |-> "err"]
    ELSE [paths |-> paths \cup {Abs(path)}, err |-> "nil"]

\* RemovePath, in the same way; fsOk: w.watcher.Remove succeeds.
removePath(paths, path, cwdOk, fsOk) ==
    IF ~IsAbs(path) /\ ~cwdOk THEN [paths |-> paths, err |-> "err"]
    ELSE IF Abs(path) \notin paths THEN [paths |-> paths, err |-> "nil"]
    ELSE IF ~fsOk THEN [paths |-> paths, err |-> "err"]
    ELSE [paths |-> paths \ {Abs(path)}, err |-> "nil"]

\* What the caller of AddPath or RemovePath can tell of the call: whether
\* the path was watched, whether the file watcher refused, what came back.
CallSeen(op, path, cwdOk, fsOk, err) ==
    [op |-> op,
     was |-> IF ~IsAbs(path) /\ ~cwdOk THEN "unknown"
             ELSE IF Abs(path) \in wpaths THEN "watched" ELSE "unwatched",
     fs |-> IF fsOk THEN "ok" ELSE "fails",
     err |-> err]

\* The paths added with a call that returned nil and not removed since with
\* a call that returned nil.
AddedAfter(op, path, err) ==
    IF err # "nil" THEN added
    ELSE IF op = "AddPath" THEN added \cup {Abs(path)}
    ELSE added \ {Abs(path)}

AddPath(path, cwdOk, fsOk) ==
    /\ wCall.op = "none"
    /\ wpaths' = addPath(wpaths, path, cwdOk, fsOk).paths
    /\ wCall' = CallSeen("AddPath", path, cwdOk, fsOk,
                         addPath(wpaths, path, cwdOk, fsOk).err)
    /\ added' = AddedAfter("AddPath", path,
                           addPath(wpaths, path, cwdOk, fsOk).err)
    /\ UNCHANGED <<now, timers, debounceTimer, evCount, stopClosed,
                   eventsClosed, closePc, closePanicked, watchPc, reloadOf,
                   reloadPc, reloadPaths, reloadSet, reloadErr, reloadLog,
                   onReloadArg, onReloadSet>>
    /\ UNCHANGED <<mwVars, cfgVars, extVars>>

RemovePath(path, cwdOk, fsOk) ==
    /\ wCall.op = "none"
    /\ wpaths' = removePath(wpaths, path, cwdOk, fsOk).paths
    /\ wCall' = CallSeen("RemovePath", path, cwdOk, fsOk,
                         removePath(wpaths, path, cwdOk, fsOk).err)
    /\ added' = AddedAfter("RemovePath", path,
                           removePath(wpaths, path, cwdOk, fsOk).err)
    /\ UNCHANGED <<now, timers, debounceTimer, evCount, stopClosed,
                   eventsClosed, closePc, closePanicked, watchPc, reloadOf,
                   reloadPc, reloadPaths, reloadSet, reloadErr, reloadLog,
                   onReloadArg, onReloadSet>>
    /\ UNCHANGED <<mwVars, cfgVars, extVars>>

NoCall == [op |-> "none", was |-> "unknown", fs |-> "ok", err |-> "nil"]

\* The caller of AddPath or RemovePath goes on.
PathCallReturned ==
    /\ wCall.op # "none"
    /\ wCall' = NoCall
    /\ UNCHANGED <<wpaths, added, now, timers, debounceTimer, evCount,
                   stopClosed, eventsClosed, closePc, closePanicked, watchPc,
                   reloadOf, reloadPc, reloadPaths, reloadSet, reloadErr,
                   reloadLog, onReloadArg, onReloadSet>>
    /\ UNCHANGED <<mwVars, cfgVars, extVars>>

\* A timer of time.AfterFunc, armed at time t by an event of kind cause.
NewTimer(t, cause) ==
    [armedAt |-> t, deadline |-> t + DebounceInterval, st |-> "armed",
     firedAt |-> 0, cause |-> cause]

\* debounceTimer.Stop(): a timer that has not fired is stopped.
StopTimer(ts, i) ==
    IF i # 0 /\ ts[i].st = "armed" THEN [ts EXCEPT ![i].st = "stopped"]
    ELSE ts

\* The event handler without the Stop of the pending timer.
onEventNoStop(ts, dt, op, t) ==
    IF IsWriteOrCreate(op)
    THEN Append(ts, NewTimer(t, IF op \cap {"Write", "Create"} # {}
                                THEN "write or create" ELSE "other"))
    ELSE ts

\* The timers after the watch goroutine handled an event at time t, dt
\* being debounceTimer (0: nil): a Write or Create stops the pending timer
\* and arms a new one.
onEvent(ts, dt, op, t) ==
    IF IsWriteOrCreate(op)
    THEN Append(StopTimer(ts, dt),
                NewTimer(t, IF op \cap {"Write", "Create"} # {}
                            THEN "write or create" ELSE "other"))
    ELSE ts

\* The watch goroutine receives an event of a watched path from
\* w.watcher.Events.
HandleEvent(op) ==
    /\ watchPc = "select"
    /\ ~eventsClosed
    /\ wpaths # {}
    /\ evCount < MaxEvents
    /\ now + DebounceInterval <= MaxTime
    /\ evCount' = evCount + 1
    /\ timers' = onEvent(timers, debounceTimer, op, now)
    /\ debounceTimer' = IF IsWriteOrCreate(op) THEN Len(timers) + 1
                        ELSE debounceTimer
    /\ UNCHANGED <<wpaths, added, wCall, now, stopClosed, eventsClosed,
                   closePc, closePanicked, watchPc, reloadOf, reloadPc,
                   reloadPaths, reloadSet, reloadErr, reloadLog, onReloadArg,
                   onReloadSet>>
    /\ UNCHANGED <<mwVars, cfgVars, extVars>>

\* The watch goroutine receives an error from w.watcher.Errors and logs it.
HandleError ==
    /\ watchPc = "select"
    /\ ~eventsClosed
    /\ UNCHANGED <<wpaths, added, wCall, now, timers, debounceTimer, evCount,
                   stopClosed, eventsClosed, closePc, closePanicked, watchPc,
                   reloadOf, reloadPc, reloadPaths, reloadSet, reloadErr,
                   reloadLog, onReloadArg, onReloadSet>>
    /\ UNCHANGED <<mwVars, cfgVars, extVars>>

\* The watch goroutine finds w.watcher.Events (or Errors) closed: it
\* returns.
ObserveClosedChannel ==
    /\ watchPc = "select"
    /\ eventsClosed
    /\ watchPc' = "returned"
    /\ UNCHANGED <<wpaths, added, wCall, now, timers, debounceTimer, evCount,
                   stopClosed, eventsClosed, closePc, closePanicked, reloadOf,
                   reloadPc, reloadPaths, reloadSet, reloadErr, reloadLog,
                   onReloadArg, onReloadSet>>
    /\ UNCHANGED <<mwVars, cfgVars, extVars>>

\* The watch goroutine finds w.stopChan closed: it stops the pending timer
\* and returns.
ObserveStop ==
    /\ watchPc = "select"
    /\ stopClosed
    /\ watchPc' = "returned"
    /\ timers' = StopTimer(timers, debounceTimer)
    /\ UNCHANGED <<wpaths, added, wCall, now, debounceTimer, evCount,
                   stopClosed, eventsClosed, closePc, closePanicked, reloadOf,
                   reloadPc, reloadPaths, reloadSet, reloadErr, reloadLog,
                   onReloadArg, onReloadSet>>
    /\ UNCHANGED <<mwVars, cfgVars, extVars>>

\* Close, first statement: close(w.stopChan). Closing a channel that is
\* closed already panics.
CloseStopChan ==
    /\ closePc \in {"open", "closed"}
    /\ IF stopClosed
       THEN /\ closePanicked' = TRUE
            /\ closePc' = closePc
       ELSE /\ closePanicked' = closePanicked
            /\ closePc' = "stopping"
    /\ stopClosed' = TRUE
    /\ UNCHANGED <<wpaths, added, wCall, now, timers, debounceTimer, evCount,
                   eventsClosed, watchPc, reloadOf, reloadPc, reloadPaths,
                   reloadSet, reloadErr, reloadLog, onReloadArg, onReloadSet>>
    /\ UNCHANGED <<mwVars, cfgVars, extVars>>

\* Close, second statement: w.watcher.Close() closes the channels of the
\* file watcher; Close returns.
CloseWatcher ==
    /\ closePc = "stopping"
    /\ closePc' = "closed"
    /\ eventsClosed' = TRUE
    /\ UNCHANGED <<wpaths, added, wCall, now, timers, debounceTimer, evCount,
                   stopClosed, closePanicked, watchPc, reloadOf, reloadPc,
                   reloadPaths, reloadSet, reloadErr, reloadLog, onReloadArg,
                   onReloadSet>>
    /\ UNCHANGED <<mwVars, cfgVars, extVars>>

\* A timer is due when the clock has reached its deadline.
Due(i) == timers[i].st = "armed" /\ timers[i].deadline <= now

\* Time passes; a timer that is due fires first.
Tick ==
    /\ now < MaxTime
    /\ \A i \in DOMAIN timers : ~Due(i)
    /\ now' = now + 1
    /\ UNCHANGED <<wpaths, added, wCall, timers, debounceTimer, evCount,
                   stopClosed, eventsClosed, closePc, closePanicked, watchPc,
                   reloadOf, reloadPc, reloadPaths, reloadSet, reloadErr,
                   reloadLog, onReloadArg, onReloadSet>>
    /\ UNCHANGED <<mwVars, cfgVars, extVars>>

\* The timer fires: time.AfterFunc starts reload on a goroutine of its own.
TimerFire(i) ==
    /\ Due(i)
    /\ timers' = [timers EXCEPT ![i].st = "fired", ![i].firedAt = now]
    /\ UNCHANGED <<wpaths, added, wCall, now, debounceTimer, evCount,
                   stopClosed, eventsClosed, closePc, closePanicked, watchPc,
                   reloadOf, reloadPc, reloadPaths, reloadSet, reloadErr,
                   reloadLog, onReloadArg, onReloadSet>>
    /\ UNCHANGED <<mwVars, cfgVars, extVars>>

\* reload takes reloadMu and copies w.paths under the read lock; the range
\* over the map yields the paths in any order.
ReloadBegin(i, ps) ==
    /\ reloadOf = 0
    /\ timers[i].st = "fired"
    /\ reloadOf' = i
    /\ timers' = [timers EXCEPT ![i].st = "reloading"]
    /\ reloadPc' = "loading"
    /\ reloadPaths' = ps
    /\ reloadSet' = wpaths
    /\ reloadErr' = "nil"
    /\ reloadLog' = <<>>
    /\ onReloadArg' = "none"
    /\ UNCHANGED <<wpaths, added, wCall, now, debounceTimer, evCount,
                   stopClosed, eventsClosed, closePc, closePanicked, watchPc,
                   onReloadSet>>
    /\ UNCHANGED <<mwVars, cfgVars, extVars>>

\* The loop of reload without its break: it goes on after a failure.
ReloadLoadFileContinue(ok) ==
    /\ reloadPc = "loading"
    /\ reloadPaths # <<>>
    /\ reloadLog' = Append(reloadLog, Head(reloadPaths))
    /\ reloadErr' = IF ok THEN "nil" ELSE "err"
    /\ reloadPaths' = Tail(reloadPaths)
    /\ UNCHANGED <<wpaths, added, wCall, now, timers, debounceTimer, evCount,
                   stopClosed, eventsClosed, closePc, closePanicked, watchPc,
                   reloadOf, reloadPc, reloadSet, onReloadArg, onReloadSet>>
    /\ UNCHANGED <<mwVars, cfgVars, extVars>>

\* reload calls w.cfg.LoadFile on the next path; whether the file loads
\* depends on its content. The first failure ends the loop.
ReloadLoadFile(ok) ==
    /\ reloadPc = "loading"
    /\ reloadPaths # <<>>
    /\ reloadLog' = Append(reloadLog, Head(reloadPaths))
    /\ reloadErr' = IF ok THEN "nil" ELSE "err"
    /\ reloadPaths' = IF ok THEN Tail(reloadPaths) ELSE <<>>
    /\ UNCHANGED <<wpaths, added, wCall, now, timers, debounceTimer, evCount,
                   stopClosed, eventsClosed, closePc, closePanicked, watchPc,
                   reloadOf, reloadPc, reloadSet, onReloadArg, onReloadSet>>
    /\ UNCHANGED <<mwVars, cfgVars, extVars>>

\* The loop is over: reload calls OnReload(err) when it is set.
ReloadCallOnReload ==
    /\ reloadPc = "loading"
    /\ reloadPaths = <<>>
    /\ reloadPc' = "called"
    /\ onReloadArg' = IF onReloadSet THEN reloadErr ELSE "none"
    /\ timers' = [timers EXCEPT ![reloadOf].st = "reloaded"]
    /\ UNCHANGED <<wpaths, added, wCall, now, debounceTimer, evCount,
                   stopClosed, eventsClosed, closePc, closePanicked, watchPc,
                   reloadOf, reloadPaths, reloadSet, reloadErr, reloadLog,
                   onReloadSet>>
    /\ UNCHANGED <<mwVars, cfgVars, extVars>>

\* reload returns: the deferred Unlock releases reloadMu.
ReloadReturn ==
    /\ reloadPc = "called"
    /\ reloadPc' = "idle"
    /\ reloadOf' = 0
    /\ reloadSet' = {}
    /\ reloadErr' = "nil"
    /\ reloadLog' = <<>>
    /\ onReloadArg' = "none"
    /\ UNCHANGED <<wpaths, added, wCall, now, timers, debounceTimer, evCount,
                   stopClosed, eventsClosed, closePc, closePanicked, watchPc,
                   reloadPaths, onReloadSet>>
    /\ UNCHANGED <<mwVars, cfgVars, extVars>>

--------------------------------------------------------------------------
\* The stack methods of Config: PushValue, PopValue, PeekValue,
\* GetRawLuaValue, ClearStack and GetStackSize work on the stack of c.L.
\* A value is a record of its kind and its text: Go values have the kinds
\* string, int, float64, bool, Lua values the kinds LTString, LTNumber,
\* LTBool.

GoValues ==
    {[k |-> "string", v |-> "hello"], [k |-> "string", v |-> "beta"],
     [k |-> "int", v |-> "42"], [k |-> "float64", v |-> "3.14"],
     [k |-> "bool", v |-> "true"], [k |-> "unsupported", v |-> "struct{}"]}

NoValue == [k |-> "none", v |-> ""]

\* Go string <-> Lua string, Go int/float64 <-> Lua number, Go bool <-> Lua
\* boolean; any other Go type is an error.
stackGoToLua(gv) ==
    CASE gv.k = "string" -> [lv |-> [k |-> "LTString", v |-> gv.v],
                             err |-> "nil"]
      [] gv.k \in {"int", "float64"} ->
             [lv |-> [k |-> "LTNumber", v |-> gv.v], err |-> "nil"]
      [] gv.k = "bool" -> [lv |-> [k |-> "LTBool", v |-> gv.v],
                           err |-> "nil"]
      [] OTHER -> [lv |-> NoValue, err |-> "error"]

stackLuaToGo(lv) ==
    CASE lv.k = "LTString" -> [k |-> "string", v |-> lv.v]
      [] lv.k = "LTNumber" -> [k |-> "float64", v |-> lv.v]
      [] lv.k = "LTBool" -> [k |-> "bool", v |-> lv.v]
      [] OTHER -> NoValue

pushValue(st, gv) ==
    IF stackGoToLua(gv).err # "nil"
    THEN [stack |-> st, val |-> NoValue, err |-> "error"]
    ELSE [stack |-> Append(st, stackGoToLua(gv).lv), val |-> NoValue,
          err |-> "nil"]

popValueBottom(st) ==
    IF st = <<>>
    THEN [stack |-> st, val |-> NoValue, err |-> "error"]
    ELSE [stack |-> Tail(st), val |-> stackLuaToGo(Head(st)), err |-> "nil"]

popValue(st) ==
    IF st = <<>>
    THEN [stack |-> st, val |-> NoValue, err |-> "error"]
    ELSE [stack |-> SubSeq(st, 1, Len(st) - 1),
          val |-> stackLuaToGo(st[Len(st)]), err |-> "nil"]

peekValuePops(st, pos) ==
    IF pos < 1 \/ pos > Len(st)
    THEN [stack |-> st, val |-> NoValue, err |-> "error"]
    ELSE [stack |-> SubSeq(st, 1, Len(st) - pos),
          val |-> stackLuaToGo(st[Len(st) + 1 - pos]), err |-> "nil"]

\* Position 1 is the top of the stack, larger positions go deeper.
peekValue(st, pos) ==
    IF pos < 1 \/ pos > Len(st)
    THEN [stack |-> st, val |-> NoValue, err |-> "error"]
    ELSE [stack |-> st, val |-> stackLuaToGo(st[Len(st) + 1 - pos]),
          err |-> "nil"]

getRawLuaValue(st, pos) ==
    IF pos < 1 \/ pos > Len(st)
    THEN [stack |-> st, val |-> NoValue, err |-> "error"]
    ELSE [stack |-> st, val |-> st[Len(st) + 1 - pos], err |-> "nil"]

clearStack(st) == [stack |-> <<>>, val |-> NoValue, err |-> "nil"]

GetStackSize == Len(stack)

\* What the caller of a stack method saw: the method, its argument, its
\* results.
StackCallSeen(op, pos, r) ==
    [op |-> op, pos |-> pos, val |-> r.val, err |-> r.err]

NoStackCall == [op |-> "none", pos |-> 0, val |-> NoValue, err |-> "nil"]

\* The Go values pushed with a call that returned nil, less those popped
\* with a call that returned nil or cleared.
PushedAfter(op, gv, err) ==
    IF op = "ClearStack" THEN <<>>
    ELSE IF err # "nil" THEN pushed
    ELSE IF op = "PushValue" THEN Append(pushed, gv)
    ELSE IF op = "PopValue" THEN SubSeq(pushed, 1, Len(pushed) - 1)
    ELSE pushed

StackFrame ==
    UNCHANGED <<coreVars, gtVars, rftVars, optVars, cmpVars, envVars, svVars, genVars, clVars, nsVars, pmVars>>

PushValue(gv) ==
    /\ stCall.op = "none"
    /\ Len(stack) < MaxStack
    /\ stack' = pushValue(stack, gv).stack
    /\ stCall' = StackCallSeen("PushValue", 0, pushValue(stack, gv))
    /\ pushed' = PushedAfter("PushValue", gv, pushValue(stack, gv).err)
    /\ StackFrame

PopValue ==
    /\ stCall.op = "none"
    /\ stack' = popValue(stack).stack
    /\ stCall' = StackCallSeen("PopValue", 0, popValue(stack))
    /\ pushed' = PushedAfter("PopValue", NoValue, popValue(stack).err)
    /\ StackFrame

PeekValue(pos) ==
    /\ stCall.op = "none"
    /\ stack' = peekValue(stack, pos).stack
    /\ stCall' = StackCallSeen("PeekValue", pos, peekValue(stack, pos))
    /\ pushed' = PushedAfter("PeekValue", NoValue,
                             peekValue(stack, pos).err)
    /\ StackFrame

GetRawLuaValue(pos) ==
    /\ stCall.op = "none"
    /\ stack' = getRawLuaValue(stack, pos).stack
    /\ stCall' = StackCallSeen("GetRawLuaValue", pos,
                               getRawLuaValue(stack, pos))
    /\ pushed' = PushedAfter("GetRawLuaValue", NoValue,
                             getRawLuaValue(stack, pos).err)
    /\ StackFrame

ClearStack ==
    /\ stCall.op = "none"
    /\ stack' = clearStack(stack).stack
    /\ stCall' = StackCallSeen("ClearStack", 0, clearStack(stack))
    /\ pushed' = PushedAfter("ClearStack", NoValue, "nil")
    /\ StackFrame

\* The caller of the stack method goes on.
StackCallReturned ==
    /\ stCall.op # "none"
    /\ stCall' = NoStackCall
    /\ UNCHANGED <<stack, pushed>>
    /\ StackFrame

\* New(): the stack of a fresh Lua state is empty.
InitStack ==
    /\ stack = <<>>
    /\ pushed = <<>>
    /\ stCall = NoStackCall

--------------------------------------------------------------------------
\* Get: validateValue, luaToStruct and luaToGo.
\* A Lua value is a record of its type t, its text s and, for a table, its
\* array part arr and its hash part hash (entries of key and value).  A Go
\* value is a record of its kind k, its text s, its elements elems (slice)
\* and its entries (map, struct).

LScalar(t, s) == [t |-> t, s |-> s, arr |-> <<>>, hash |-> <<>>]

LNil == LScalar("LTNil", "")

LTable(arr, hash) == [t |-> "LTTable", s |-> "", arr |-> arr, hash |-> hash]

Entry(key, val) == [key |-> key, val |-> val]

GoVal(k, s) == [k |-> k, s |-> s, elems |-> <<>>, entries |-> <<>>]

GoSlice(k, elems) == [k |-> k, s |-> "", elems |-> elems, entries |-> <<>>]

GoEntries(k, entries) ==
    [k |-> k, s |-> "", elems |-> <<>>, entries |-> entries]

\* A Go type: its kind, the kind of its elements (slice, map) and its
\* exported fields with their lua tags (struct).
ScalarType(k) == [kind |-> k, elem |-> "", fields |-> <<>>]

SliceType(e) == [kind |-> "slice", elem |-> e, fields |-> <<>>]

MapType(e) == [kind |-> "map", elem |-> e, fields |-> <<>>]

StructField(name, type) == [name |-> name, type |-> type]

StructType(fields) == [kind |-> "struct", elem |-> "", fields |-> fields]

\* reflect.Type.Kind()
Kind(t) == t.kind

\* reflect.Type.Elem() of a slice or map type
Elem(t) == ScalarType(t.elem)

\* reflect.Zero(t)
Zero(t) == GoVal(Kind(t), "zero")

\* table.RawGetString(name)
RECURSIVE RawGetStringFrom(_, _, _)
RawGetStringFrom(hash, name, i) ==
    IF i > Len(hash) THEN LNil
    ELSE IF hash[i].key = name THEN hash[i].val
    ELSE RawGetStringFrom(hash, name, i + 1)

RawGetString(table, name) == RawGetStringFrom(table.hash, name, 1)

\* validateValue for a type that is not a struct.
validateScalar(lv, t) ==
    CASE Kind(t) \in {"slice", "map"} ->
             IF lv.t # "LTTable" THEN "expected table" ELSE "nil"
      [] Kind(t) = "string" ->
             IF lv.t # "LTString" THEN "expected string" ELSE "nil"
      [] Kind(t) \in {"int", "float64"} ->
             IF lv.t # "LTNumber" THEN "expected number" ELSE "nil"
      [] Kind(t) = "bool" ->
             IF lv.t # "LTBool" THEN "expected boolean" ELSE "nil"
      [] OTHER -> "nil"

RECURSIVE validateFields(_, _, _)
RECURSIVE validateValue(_, _)

\* validateValue's loop over the fields of a struct type, from field i.
validateFields(table, fields, i) ==
    IF i > Len(fields) THEN "nil"
    ELSE IF validateValue(RawGetString(table, fields[i].name),
                          fields[i].type) # "nil"
         THEN "field error"
         ELSE validateFields(table, fields, i + 1)

validateValue(lv, t) ==
    IF lv.t = "LTNil" THEN "nil"
    ELSE IF Kind(t) = "struct"
         THEN IF lv.t # "LTTable" THEN "expected table for struct"
              ELSE validateFields(lv, t.fields, 1)
         ELSE validateScalar(lv, t)

\* luaToGo for a value that is not a table.
luaScalarToGo(lv, t) ==
    CASE lv.t = "LTNil" -> [val |-> Zero(t), err |-> "nil"]
      [] lv.t = "LTBool" ->
             IF Kind(t) \in {"bool", "interface"}
             THEN [val |-> GoVal("bool", lv.s), err |-> "nil"]
             ELSE [val |-> Zero(t), err |-> "cannot convert boolean"]
      [] lv.t = "LTNumber" ->
             IF Kind(t) \in {"float64", "int"}
             THEN [val |-> GoVal(Kind(t), lv.s), err |-> "nil"]
             ELSE IF Kind(t) = "interface"
             THEN [val |-> GoVal("float64", lv.s), err |-> "nil"]
             ELSE [val |-> Zero(t), err |-> "cannot convert number"]
      [] lv.t = "LTString" ->
             IF Kind(t) \in {"string", "interface"}
             THEN [val |-> GoVal("string", lv.s), err |-> "nil"]
             ELSE [val |-> Zero(t), err |-> "cannot convert string"]
      [] OTHER -> [val |-> Zero(t), err |-> "unsupported Lua type"]

RECURSIVE luaToGo(_, _)
RECURSIVE luaToStructFrom(_, _, _, _)

\* luaToStruct's loop over the fields, from field i; vals are the values
\* the fields of the target hold.
luaToStructFrom(table, fields, vals, i) ==
    IF i > Len(fields) THEN [val |-> vals, err |-> "nil"]
    ELSE IF RawGetString(table, fields[i].name).t = "LTNil"
    THEN luaToStructFrom(table, fields, vals, i + 1)
    ELSE IF luaToGo(RawGetString(table, fields[i].name),
                    fields[i].type).err # "nil"
    THEN [val |-> vals, err |-> "field error"]
    ELSE luaToStructFrom(table, fields,
             [vals EXCEPT ![i] = luaToGo(RawGetString(table, fields[i].name),
                                         fields[i].type).val],
             i + 1)

luaToStruct(lv, fields, vals) ==
    IF lv.t # "LTTable" THEN [val |-> vals, err |-> "expected table"]
    ELSE luaToStructFrom(lv, fields, vals, 1)

\* The values of vs that convert to type t, converted: the loops of luaToGo
\* append a value only when err == nil.
ConvertedOnly(vs, t) ==
    LET Converts(v) == luaToGo(v, t).err = "nil"
        kept == SelectSeq(vs, Converts)
    IN  [i \in 1..Len(kept) |-> luaToGo(kept[i], t).val]

\* The map loop: an entry is set only when its key and its value convert.
\* The keys of the array part are numbers, which do not convert to the
\* string keys of the map.
ConvertedEntries(table, t) ==
    LET Converts(e) == luaToGo(e.val, t).err = "nil"
        kept == SelectSeq(table.hash, Converts)
    IN  [i \in 1..Len(kept) |->
            Entry(kept[i].key, luaToGo(kept[i].val, t).val)]

ZeroFields(fields) == [i \in 1..Len(fields) |-> Zero(fields[i].type)]

luaToGo(lv, t) ==
    IF lv.t # "LTTable" THEN luaScalarToGo(lv, t)
    ELSE LET isArray == Len(lv.arr) > 0
             all == [i \in 1..Len(lv.hash) |-> lv.hash[i].val]
         IN  CASE Kind(t) = "slice" ->
                      [val |-> GoSlice("slice",
                                   IF isArray
                                   THEN ConvertedOnly(lv.arr, Elem(t))
                                   ELSE ConvertedOnly(all, Elem(t))),
                       err |-> "nil"]
               [] Kind(t) = "map" ->
                      [val |-> GoEntries("map",
                                   ConvertedEntries(lv, Elem(t))),
                       err |-> "nil"]
               [] Kind(t) = "struct" ->
                      IF luaToStruct(lv, t.fields, ZeroFields(t.fields)).err
                             # "nil"
                      THEN [val |-> Zero(t), err |-> "field error"]
                      ELSE [val |-> GoSlice("struct",
                                      luaToStruct(lv, t.fields,
                                          ZeroFields(t.fields)).val),
                            err |-> "nil"]
               [] Kind(t) = "interface" ->
                      IF isArray
                      THEN [val |-> GoSlice("slice",
                                      ConvertedOnly(lv.arr,
                                          ScalarType("interface"))),
                            err |-> "nil"]
                      ELSE [val |-> GoEntries("map",
                                      ConvertedEntries(lv,
                                          ScalarType("interface"))),
                            err |-> "nil"]
               [] OTHER -> [val |-> Zero(t), err |-> "cannot convert table"]

\* Get(ctx, name, target): lv is the value of the global, t the type target
\* points to, vals the values its fields hold.  code is the Code of the
\* *Error returned, "none" when the error is not an *Error.
Get(lv, t, vals) ==
    IF lv.t = "LTNil"
    THEN [code |-> "ErrNotFound", err |-> "not found", val |-> vals]
    ELSE IF validateValue(lv, t) # "nil"
    THEN [code |-> "ErrValidation", err |-> "validation failed",
          val |-> vals]
    ELSE [code |-> "none", err |-> luaToStruct(lv, t.fields, vals).err,
          val |-> luaToStruct(lv, t.fields, vals).val]

\* The types of the fields of a target struct.
FieldTypes ==
    {ScalarType("string"), ScalarType("int"), ScalarType("uint"),
     ScalarType("float64"), ScalarType("bool"), ScalarType("interface"),
     SliceType("int"), MapType("int"),
     StructType(<<StructField("n", ScalarType("int"))>>)}

\* The target structs: a first field of a plain type, a second of any type.
TargetTypes ==
    {StructType(<<StructField("a", ta), StructField("b", tb)>>) :
        ta \in {ScalarType("string"), ScalarType("int")}, tb \in FieldTypes}

LuaScalars ==
    {LScalar("LTString", "x"), LScalar("LTNumber", "1"),
     LScalar("LTBool", "true"), LScalar("LTFunction", "f")}

\* The values a script gives to a field of the configuration table.
LuaFieldValues ==
    {LNil} \cup LuaScalars
    \cup {LTable(arr, <<>>) :
             arr \in SeqUpTo(LuaScalars \ {LScalar("LTFunction", "f")},
                             MaxArr) \ {<<>>}}
    \cup {LTable(<<>>, <<Entry("n", v)>>) :
             v \in {LScalar("LTString", "x"), LScalar("LTNumber", "1")}}

\* The table a script builds: the fields that are not nil.
ConfigTable(va, vb) ==
    LTable(<<>>,
           (IF va.t = "LTNil" THEN <<>> ELSE <<Entry("a", va)>>)
           \o (IF vb.t = "LTNil" THEN <<>> ELSE <<Entry("b", vb)>>))

\* The values of the global that Get is called on.
LuaGlobals ==
    {LNil, LScalar("LTString", "x")}
    \cup {ConfigTable(va, vb) :
             va \in {LNil, LScalar("LTString", "x"), LScalar("LTNumber", "1")},
             vb \in LuaFieldValues}

\* What the fields of the target hold before Get.
OldVals(t) == [i \in 1..Len(t.fields) |-> GoVal(Kind(t.fields[i].type), "old")]

NoGetOut == [done |-> FALSE, code |-> "none", err |-> "nil"]

GetFrame ==
    UNCHANGED <<coreVars, stVars, rftVars, optVars, cmpVars, envVars, svVars, genVars, clVars, nsVars, pmVars>>

\* A call of Get on the global with a pointer to the target.
GetCall ==
    /\ ~getOut.done
    /\ getOut' = [done |-> TRUE, code |-> Get(luaGlobal, tgtType, tgtVals).code,
                  err |-> Get(luaGlobal, tgtType, tgtVals).err]
    /\ tgtVals' = Get(luaGlobal, tgtType, tgtVals).val
    /\ UNCHANGED <<luaGlobal, tgtType>>
    /\ GetFrame

\* The caller sets the global and the target again.
GetReturned ==
    /\ getOut.done
    /\ getOut' = NoGetOut
    /\ luaGlobal' \in LuaGlobals
    /\ tgtVals' = OldVals(tgtType)
    /\ UNCHANGED tgtType
    /\ GetFrame

InitGet(lv, t) ==
    /\ luaGlobal = lv
    /\ tgtType = t
    /\ tgtVals = OldVals(t)
    /\ getOut = NoGetOut

--------------------------------------------------------------------------
\* RegisterFunctionTable(ctx, name, funcs).  The map funcs is "empty", "funcs"
\* (every entry is a function) or "invalid" (an entry is not a function).

TableNames == {"", "utils"}

FuncMaps == {"empty", "funcs", "invalid"}

argsErrorNameOnly(name, funcs) ==
    IF name = "" THEN "ErrInvalidType" ELSE "nil"

\* The checks of the arguments before any hook runs.
argsError(name, funcs) ==
    IF name = "" THEN "ErrInvalidType"
    ELSE IF funcs = "empty" THEN "ErrInvalidType"
    ELSE "nil"

\* c.L.SetGlobal(name, value)
SetGlobal(g, name, value) ==
    [n \in DOMAIN g \cup {name} |-> IF n = name THEN value ELSE g[n]]

\* What the call leaves alone of the Config.
RftFrame ==
    /\ UNCHANGED <<sandbox, muReaders, memLimit, preloadNil, opKind, lfPc,
                   lfFile, lfSnap, lfStartHooks, lfResult, hookCalls, usingL,
                   getPc, getResult>>
    /\ UNCHANGED <<mwVars, wVars, stVars, gtVars, optVars, cmpVars, envVars, svVars, genVars, clVars, nsVars, pmVars>>

\* The call checks its arguments and, when they pass, runHooks(BeforeExec)
\* copies the hooks.
RegisterFunctionTable(name, funcs) ==
    /\ rftPc = "idle"
    /\ rftName' = name
    /\ rftFuncs' = funcs
    /\ rftLog' = <<>>
    /\ rftG0' = G
    /\ rftBefore' = hooks["BeforeExec"]
    /\ rftAfter' = <<>>
    /\ IF argsError(name, funcs) # "nil"
       THEN /\ rftPc' = "done"
            /\ rftResult' = argsError(name, funcs)
            /\ rftSnap' = <<>>
       ELSE /\ rftPc' = "before"
            /\ rftResult' = "none"
            /\ rftSnap' = runHooks("BeforeExec")
    /\ UNCHANGED <<hooks, G>>
    /\ RftFrame

\* runHooks invokes the next hook of its copy; a hook that returns an error
\* ends the loop and the call returns that error.
InvokeExecHook(fails) ==
    /\ rftPc \in {"before", "after"}
    /\ rftSnap # <<>>
    /\ rftLog' = Append(rftLog, <<Head(rftSnap)[1], Head(rftSnap)[2],
                                  IF fails THEN "error" ELSE "nil">>)
    /\ IF fails
       THEN /\ rftPc' = "done"
            /\ rftSnap' = <<>>
            /\ rftResult' = "hook error"
       ELSE /\ rftPc' = rftPc
            /\ rftSnap' = Tail(rftSnap)
            /\ rftResult' = rftResult
    /\ UNCHANGED <<hooks, G, rftName, rftFuncs, rftG0, rftBefore, rftAfter>>
    /\ RftFrame

\* Every BeforeExec hook returned nil: the functions are wrapped; when one
\* is no function the call returns ErrInvalidType, otherwise the table is
\* set as the global under the write lock and runHooks(AfterExec) copies the
\* hooks.
WrapAndSetGlobal ==
    /\ rftPc = "before"
    /\ rftSnap = <<>>
    /\ IF rftFuncs = "invalid"
       THEN /\ rftPc' = "done"
            /\ rftResult' = "ErrInvalidType"
            /\ UNCHANGED <<G, rftLog, rftSnap, rftAfter>>
       ELSE /\ muReaders = 0
            /\ G' = SetGlobal(G, rftName,
                              Lib(IF rftFuncs = "funcs" THEN {"add"} ELSE {}))
            /\ rftLog' = Append(rftLog, <<"SetGlobal", 0, "nil">>)
            /\ rftPc' = "after"
            /\ rftSnap' = runHooks("AfterExec")
            /\ rftAfter' = hooks["AfterExec"]
            /\ rftResult' = rftResult
    /\ UNCHANGED <<hooks, rftName, rftFuncs, rftG0, rftBefore>>
    /\ RftFrame

\* Every AfterExec hook returned nil: the call returns nil.
AfterExecDone ==
    /\ rftPc = "after"
    /\ rftSnap = <<>>
    /\ rftPc' = "done"
    /\ rftResult' = "nil"
    /\ UNCHANGED <<hooks, G, rftName, rftFuncs, rftSnap, rftLog, rftG0,
                   rftBefore, rftAfter>>
    /\ RftFrame

\* The caller goes on.
RftReturned ==
    /\ rftPc = "done"
    /\ rftPc' = "idle"
    /\ UNCHANGED <<hooks, G, rftName, rftFuncs, rftSnap, rftResult, rftLog,
                   rftG0, rftBefore, rftAfter>>
    /\ RftFrame

InitRft ==
    /\ rftPc = "idle"
    /\ rftName = ""
    /\ rftFuncs = "empty"
    /\ rftSnap = <<>>
    /\ rftResult = "none"
    /\ rftLog = <<>>
    /\ rftG0 = NewState
    /\ rftBefore = <<>>
    /\ rftAfter = <<>>

--------------------------------------------------------------------------
\* RegisterLuaFunctionWithOptions(name, fn, opts) and the calls of the
\* wrapper it registers.

MiddlewareNames == {"logging", "metrics", "unknown"}

\* The names that c.middlewareMap can hold.
MapNames == {"logging", "metrics"}

NoOptions == [registered |-> FALSE, mw |-> <<>>, before |-> FALSE,
              after |-> FALSE]

chainOfForwardLoop(names, map) ==
    LET Known(n) == n \in map
        kept == SelectSeq(names, Known)
    IN  [i \in 1..Len(kept) |-> kept[Len(kept) + 1 - i]]

\* The wrapper's loop over opts.Middleware, from the last name to the first:
\* a name that getMiddleware finds wraps the function built so far, any
\* other name is skipped.  The result is the chain, the outermost first.
chainOf(names, map) ==
    LET Known(n) == n \in map
    IN  SelectSeq(names, Known)

OptFrame ==
    UNCHANGED <<coreVars, stVars, gtVars, rftVars, cmpVars, envVars, svVars, genVars, clVars, nsVars, pmVars>>

\* The test and the callers of the package set c.middlewareMap.
SetMiddlewareMap(map) ==
    /\ ocPc = "idle"
    /\ middlewareMap' = map
    /\ UNCHANGED <<optFn, optResult, ocPc, ocRest, ocBeforeErr, ocFn, ocOrder,
                   ocResult>>
    /\ OptFrame

\* RegisterLuaFunctionWithOptions: an empty name or a nil fn is an error,
\* otherwise the wrapper is set as the global.
RegisterLuaFunctionWithOptions(name, fnNil, names, before, after) ==
    /\ ocPc = "idle"
    /\ IF name = "" \/ fnNil
       THEN /\ optResult' = "ErrInvalidType"
            /\ optFn' = optFn
       ELSE /\ optResult' = "nil"
            /\ optFn' = [registered |-> TRUE, mw |-> names,
                         before |-> before, after |-> after]
    /\ UNCHANGED <<middlewareMap, ocPc, ocRest, ocBeforeErr, ocFn, ocOrder,
                   ocResult>>
    /\ OptFrame

\* Lua calls the wrapper: BeforeCall runs when it is set; when it returns an
\* error, L.RaiseError ends the call; otherwise the chain is built.
CallWrapper(beforeErr, fn) ==
    /\ ocPc = "idle"
    /\ optFn.registered
    /\ ocBeforeErr' = beforeErr
    /\ ocFn' = fn
    /\ ocOrder' = IF optFn.before THEN <<"BeforeCall">> ELSE <<>>
    /\ IF optFn.before /\ beforeErr
       THEN /\ ocPc' = "done"
            /\ ocResult' = "LuaError"
            /\ ocRest' = <<>>
       ELSE /\ ocPc' = "chain"
            /\ ocResult' = "none"
            /\ ocRest' = chainOf(optFn.mw, middlewareMap)
    /\ UNCHANGED <<middlewareMap, optFn, optResult>>
    /\ OptFrame

\* The next middleware of the chain runs and calls next.
WrapperEnterMiddleware ==
    /\ ocPc = "chain"
    /\ ocRest # <<>>
    /\ ocOrder' = Append(ocOrder, Head(ocRest))
    /\ ocRest' = Tail(ocRest)
    /\ UNCHANGED <<middlewareMap, optFn, optResult, ocPc, ocBeforeErr, ocFn,
                   ocResult>>
    /\ OptFrame

\* fn runs.  When it panics, the deferred function recovers and raises a
\* Lua error; otherwise AfterCall runs when it is set.
WrapperRunFunction ==
    /\ ocPc = "chain"
    /\ ocRest = <<>>
    /\ ocPc' = "done"
    /\ IF ocFn = "panic"
       THEN /\ ocOrder' = Append(ocOrder, "fn")
            /\ ocResult' = "LuaError"
       ELSE /\ ocOrder' = IF optFn.after
                          THEN ocOrder \o <<"fn", "AfterCall">>
                          ELSE Append(ocOrder, "fn")
            /\ ocResult' = "ok"
    /\ UNCHANGED <<middlewareMap, optFn, optResult, ocRest, ocBeforeErr,
                   ocFn>>
    /\ OptFrame

\* The call is over.
WrapperReturned ==
    /\ ocPc = "done"
    /\ ocPc' = "idle"
    /\ ocOrder' = <<>>
    /\ ocResult' = "none"
    /\ UNCHANGED <<middlewareMap, optFn, optResult, ocRest, ocBeforeErr,
                   ocFn>>
    /\ OptFrame

InitOpt ==
    /\ middlewareMap = {}
    /\ optFn = NoOptions
    /\ optResult = "none"
    /\ ocPc = "idle"
    /\ ocRest = <<>>
    /\ ocBeforeErr = FALSE
    /\ ocFn = "ok"
    /\ ocOrder = <<>>
    /\ ocResult = "none"

--------------------------------------------------------------------------
\* ComposeFunctions(name, funcs...) and the calls of the wrapper it
\* registers.  The globals double and addOne are the Lua functions of the
\* test, fail is a Lua function that raises an error, missing is nil.

LuaFuncNames == {"double", "addOne", "fail", "missing"}

\* c.L.CallByParam(lua.P{Fn: fn, NRet: 1, Protect: true}, args...): the
\* functions read their first argument; arithmetic on nil is an error.
callByParam(f, args) ==
    IF f = "fail" \/ args = <<>> THEN [err |-> TRUE, val |-> 0]
    ELSE [err |-> FALSE,
          val |-> IF f = "double" THEN 2 * args[1] ELSE args[1] + 1]

nextArgsKeep(args, val) == args

\* result = []lua.LValue{val}: the single return value is the input of the
\* next function.
nextArgs(args, val) == <<val>>

NoComposed == [registered |-> FALSE, funcs |-> <<>>]

CmpFrame ==
    UNCHANGED <<coreVars, stVars, gtVars, rftVars, optVars, envVars, svVars, genVars, clVars, nsVars, pmVars>>

\* ComposeFunctions: fewer than two names is an error; otherwise the
\* wrapper is registered with RegisterLuaFunction, which refuses an empty
\* name.  The model follows a Config until its first composition.
ComposeFunctions(name, funcs) ==
    /\ ccPc = "idle"
    /\ ~composed.registered
    /\ IF Len(funcs) < 2 \/ name = ""
       THEN /\ composed' = composed
            /\ cmpCall' = [name |-> name, funcs |-> funcs,
                           result |-> "ErrInvalidType"]
       ELSE /\ composed' = [registered |-> TRUE, funcs |-> funcs]
            /\ cmpCall' = [name |-> name, funcs |-> funcs, result |-> "nil"]
    /\ UNCHANGED <<ccPc, ccRest, ccArgs, ccVal, ccLog, ccResult>>
    /\ CmpFrame

\* Lua calls the wrapper with args.
CallComposed(args) ==
    /\ ccPc = "idle"
    /\ composed.registered
    /\ ccPc' = "loop"
    /\ ccRest' = composed.funcs
    /\ ccArgs' = args
    /\ ccVal' = args
    /\ ccLog' = <<>>
    /\ ccResult' = "none"
    /\ UNCHANGED <<composed, cmpCall>>
    /\ CmpFrame

\* One round of the wrapper's loop: the global is looked up and called with
\* the current values.
ComposedStep ==
    /\ ccPc = "loop"
    /\ ccRest # <<>>
    /\ ccRest' = Tail(ccRest)
    /\ IF Head(ccRest) = "missing"
       THEN /\ ccPc' = "done"
            /\ ccResult' = "LuaError"
            /\ UNCHANGED <<ccVal, ccLog>>
       ELSE /\ ccLog' = Append(ccLog, <<Head(ccRest), ccVal>>)
            /\ IF callByParam(Head(ccRest), ccVal).err
               THEN /\ ccPc' = "done"
                    /\ ccResult' = "LuaError"
                    /\ ccVal' = ccVal
               ELSE /\ ccPc' = "loop"
                    /\ ccResult' = ccResult
                    /\ ccVal' = nextArgs(ccVal,
                                         callByParam(Head(ccRest), ccVal).val)
    /\ UNCHANGED <<composed, cmpCall, ccArgs>>
    /\ CmpFrame

\* The loop is over: the wrapper pushes the result.
ComposedReturn ==
    /\ ccPc = "loop"
    /\ ccRest = <<>>
    /\ ccPc' = "done"
    /\ ccResult' = "ok"
    /\ UNCHANGED <<composed, cmpCall, ccRest, ccArgs, ccVal, ccLog>>
    /\ CmpFrame

\* The call is over.
ComposedReturned ==
    /\ ccPc = "done"
    /\ ccPc' = "idle"
    /\ ccRest' = <<>>
    /\ ccArgs' = <<>>
    /\ ccVal' = <<>>
    /\ ccLog' = <<>>
    /\ ccResult' = "none"
    /\ UNCHANGED <<composed, cmpCall>>
    /\ CmpFrame

InitCompose ==
    /\ composed = NoComposed
    /\ cmpCall = [name |-> "", funcs |-> <<>>, result |-> "ErrInvalidType"]
    /\ ccPc = "idle"
    /\ ccRest = <<>>
    /\ ccArgs = <<>>
    /\ ccVal = <<>>
    /\ ccLog = <<>>
    /\ ccResult = "none"

--------------------------------------------------------------------------
\* EnvManager: RegisterEnvironment, ActivateEnvironment, loadEnvVars.
\* A global of the Lua state holds the name of the step that set it last.

EnvKeys == {"config", "debug", "extra", "api.key"}

IncludeFiles == {"inc1.lua", "inc2.lua"}

\* The globals that each configuration file assigns.
FileAssigns(file) ==
    CASE file = "base.lua" -> {"config", "debug"}
      [] file = "dev.lua" -> {"config"}
      [] file = "inc1.lua" -> {"debug", "extra"}
      [] file = "inc2.lua" -> {"extra"}
      [] OTHER -> {}

\* os.Environ()
Environ == {"APP_DEBUG", "APP_API_KEY", "OTHER_DEBUG"}

\* strings.ReplaceAll(strings.ToLower(strings.TrimPrefix(key, prefix)),
\* "_", "."), "" when key has not the prefix.
luaNameOf(key, prefix) ==
    CASE prefix = "APP_" /\ key = "APP_DEBUG" -> "debug"
      [] prefix = "APP_" /\ key = "APP_API_KEY" -> "api.key"
      [] OTHER -> ""

\* loadEnvVars(prefix): the globals it sets.
loadEnvVars(prefix) ==
    {luaNameOf(key, prefix) : key \in Environ} \ {""}

Environments ==
    [Name : {"dev"}, BaseConfig : {"", "base.lua"},
     EnvConfig : {"", "dev.lua"}, EnvPrefix : {"", "APP_"},
     IncludePaths : SeqUpTo(IncludeFiles, MaxIncludes)]

loadOrderIncludesFirst(env) ==
    env.IncludePaths
        \o (IF env.BaseConfig # "" THEN <<env.BaseConfig>> ELSE <<>>)
        \o (IF env.EnvConfig # "" THEN <<env.EnvConfig>> ELSE <<>>)
        \o (IF env.EnvPrefix # "" THEN <<"os.Environ">> ELSE <<>>)

\* The steps of ActivateEnvironment, in the order of its statements.
loadOrder(env) ==
    (IF env.BaseConfig # "" THEN <<env.BaseConfig>> ELSE <<>>)
        \o (IF env.EnvConfig # "" THEN <<env.EnvConfig>> ELSE <<>>)
        \o env.IncludePaths
        \o (IF env.EnvPrefix # "" THEN <<"os.Environ">> ELSE <<>>)

EnvFrame == UNCHANGED <<coreVars, stVars, gtVars, rftVars, optVars, cmpVars, svVars, genVars, clVars, nsVars, pmVars>>

\* RegisterEnvironment(env): the name must not be empty and the base and
\* environment files must exist.  The model follows an EnvManager until its
\* first environment is registered, and from then on its activations.
RegisterEnvironment(env, nameEmpty, filesExist) ==
    /\ aePc = "idle"
    /\ DOMAIN environments = {}
    /\ environments' =
           IF nameEmpty \/ (~filesExist /\ env.BaseConfig \o env.EnvConfig # "")
           THEN environments
           ELSE [n \in DOMAIN environments \cup {env.Name} |->
                    IF n = env.Name THEN env ELSE environments[n]]
    /\ UNCHANGED <<activeEnv, luaVars, aePc, aeName, aeSteps, aeLog, aeStart,
                   aeResult>>
    /\ EnvFrame

\* ActivateEnvironment with em.activeEnv set before the files are loaded.
ActivateEnvironmentSetsFirst(name) ==
    /\ aePc = "idle"
    /\ aeName' = name
    /\ aeLog' = <<>>
    /\ aeStart' = luaVars
    /\ IF name \notin DOMAIN environments
       THEN /\ aePc' = "done"
            /\ aeResult' = "environment not found"
            /\ aeSteps' = <<>>
            /\ activeEnv' = activeEnv
       ELSE /\ aePc' = "loading"
            /\ aeResult' = "none"
            /\ aeSteps' = loadOrder(environments[name])
            /\ activeEnv' = name
    /\ UNCHANGED <<environments, luaVars>>
    /\ EnvFrame

\* ActivateEnvironment(name): an unknown name is an error.
ActivateEnvironment(name) ==
    /\ aePc = "idle"
    /\ aeName' = name
    /\ aeLog' = <<>>
    /\ aeStart' = luaVars
    /\ IF name \notin DOMAIN environments
       THEN /\ aePc' = "done"
            /\ aeResult' = "environment not found"
            /\ aeSteps' = <<>>
       ELSE /\ aePc' = "loading"
            /\ aeResult' = "none"
            /\ aeSteps' = loadOrder(environments[name])
    /\ UNCHANGED <<environments, activeEnv, luaVars>>
    /\ EnvFrame

\* The next step: em.cfg.LoadFile of a file, or loadEnvVars.  A LoadFile
\* that fails ends the activation with its error.
ActivateStep(ok) ==
    /\ aePc = "loading"
    /\ aeSteps # <<>>
    /\ IF Head(aeSteps) = "os.Environ"
       THEN /\ luaVars' = [k \in EnvKeys |->
                              IF k \in loadEnvVars(environments[aeName].EnvPrefix)
                              THEN "os.Environ" ELSE luaVars[k]]
            /\ aeLog' = Append(aeLog, Head(aeSteps))
            /\ aeSteps' = Tail(aeSteps)
            /\ UNCHANGED <<aePc, aeResult>>
       ELSE IF ok
       THEN /\ luaVars' = [k \in EnvKeys |->
                              IF k \in FileAssigns(Head(aeSteps))
                              THEN Head(aeSteps) ELSE luaVars[k]]
            /\ aeLog' = Append(aeLog, Head(aeSteps))
            /\ aeSteps' = Tail(aeSteps)
            /\ UNCHANGED <<aePc, aeResult>>
       ELSE /\ aePc' = "done"
            /\ aeResult' = "failed to load"
            /\ UNCHANGED <<luaVars, aeLog, aeSteps>>
    /\ UNCHANGED <<environments, activeEnv, aeName, aeStart>>
    /\ EnvFrame

\* Every step is done: the environment becomes the active one.
ActivateDone ==
    /\ aePc = "loading"
    /\ aeSteps = <<>>
    /\ activeEnv' = aeName
    /\ aePc' = "done"
    /\ aeResult' = "nil"
    /\ UNCHANGED <<environments, luaVars, aeName, aeSteps, aeLog, aeStart>>
    /\ EnvFrame

\* The caller goes on.
ActivateReturned ==
    /\ aePc = "done"
    /\ aePc' = "idle"
    /\ aeLog' = <<>>
    /\ aeStart' = luaVars
    /\ UNCHANGED <<environments, activeEnv, luaVars, aeName, aeSteps,
                   aeResult>>
    /\ EnvFrame

GetActiveEnvironment == activeEnv

\* NewEnvManager(configDir) on a fresh Config.
InitEnv ==
    /\ environments = [n \in {} |-> 0]
    /\ activeEnv = ""
    /\ luaVars = [k \in EnvKeys |-> "nil"]
    /\ aePc = "idle"
    /\ aeName = ""
    /\ aeSteps = <<>>
    /\ aeLog = <<>>
    /\ aeStart = [k \in EnvKeys |-> "nil"]
    /\ aeResult = "none"

--------------------------------------------------------------------------
\* SchemaValidator (schema.go).

\* A reflect.Value: a field of a struct with its name, or the value handed
\* to Validate (name ""). str holds a string, num a number, fields the
\* fields of a struct.
StringField(name, s) ==
    [name |-> name, kind |-> "string", str |-> s, num |-> 0, fields |-> <<>>]
IntField(name, n) ==
    [name |-> name, kind |-> "int", str |-> "", num |-> n, fields |-> <<>>]
UintField(name, n) ==
    [name |-> name, kind |-> "uint", str |-> "", num |-> n, fields |-> <<>>]
StructValue(name, fs) ==
    [name |-> name, kind |-> "struct", str |-> "", num |-> 0, fields |-> fs]
\* A pointer to the struct v.
PtrTo(v) == [v EXCEPT !.kind = "ptr"]
InvalidValue ==
    [name |-> "", kind |-> "invalid", str |-> "", num |-> 0, fields |-> <<>>]

\* The configuration struct of the test, with a field of kind uint added.
ServerConfig(host, port, size, cert) ==
    StructValue("", <<StringField("Host", host), IntField("Port", port),
                      UintField("Size", size),
                      StructValue("TLS", <<StringField("Cert", cert)>>)>>)

Hosts == {"", "localhost", "invalid/host"}
Certs == {"", "/path/to/cert"}
Nums == 0..MaxNum

\* The values handed to Validate: the structs, a pointer to a struct and a
\* value that is no struct.
SchemaConfigs ==
    {ServerConfig(h, p, z, c) : h \in Hosts, p \in Nums, z \in Nums,
                                c \in Certs}
        \cup {PtrTo(ServerConfig("localhost", 1, 1, ""))}
        \cup {StringField("", "localhost")}

HostPattern == "^[a-zA-Z0-9\\.-]+$"
\* regexp.Compile: the patterns that compile.
Compiles(pattern) == pattern = HostPattern
\* re.MatchString on the strings above: HostPattern wants one or more
\* letters, digits, dots and dashes.
MatchString(re, s) == re = HostPattern /\ s = "localhost"

EmptyMap == [n \in {} |-> 0]
MapSet(m, k, v) == [n \in DOMAIN m \cup {k} |-> IF n = k THEN v ELSE m[n]]

NewSchemaValidator ==
    [Required |-> {}, Patterns |-> EmptyMap, Ranges |-> EmptyMap,
     CustomValidators |-> EmptyMap, Nested |-> EmptyMap]

\* The custom validator of the test: the number lies between two limits.
customValidator(validator, f) ==
    IF validator = "between" /\ (f.num < 1 \/ f.num > MaxNum - 1)
    THEN "error" ELSE "nil"

\* val.FieldByName(field).
FieldByName(val, field) ==
    IF \E i \in 1..Len(val.fields) : val.fields[i].name = field
    THEN val.fields[CHOOSE i \in 1..Len(val.fields) :
                        val.fields[i].name = field]
    ELSE InvalidValue

\* f.IsZero().
RECURSIVE IsZero(_)
IsZero(f) ==
    CASE f.kind = "string" -> f.str = ""
      [] f.kind \in {"int", "uint"} -> f.num = 0
      [] OTHER -> \A i \in 1..Len(f.fields) : IsZero(f.fields[i])

\* The number the range is compared with: the switch has cases for the
\* signed integers and the floats only.
rangeNum(fieldVal) == IF fieldVal.kind = "int" THEN fieldVal.num ELSE 0

RECURSIVE Validate(_, _)
\* The checks of one field in the loop over the fields; "nil" when it passes.
validateField(v, fieldVal) ==
    LET fieldName == fieldVal.name
    IN  IF /\ fieldName \in DOMAIN v.Patterns
           /\ fieldVal.kind = "string"
           /\ ~MatchString(v.Patterns[fieldName], fieldVal.str)
        THEN "does not match pattern"
        ELSE IF /\ fieldName \in DOMAIN v.Ranges
                /\ \/ rangeNum(fieldVal) < v.Ranges[fieldName].Min
                   \/ rangeNum(fieldVal) > v.Ranges[fieldName].Max
        THEN "must be between"
        ELSE IF /\ fieldName \in DOMAIN v.CustomValidators
                /\ customValidator(v.CustomValidators[fieldName], fieldVal)
                       # "nil"
        THEN "custom"
        ELSE IF /\ fieldName \in DOMAIN v.Nested
                /\ fieldVal.kind = "struct"
                /\ Validate(v.Nested[fieldName], fieldVal) # "nil"
        THEN "nested"
        ELSE "nil"

\* sv.Validate(cfg): "nil" or the kind of the error.
Validate(v, cfg) ==
    LET val == IF cfg.kind = "ptr" THEN [cfg EXCEPT !.kind = "struct"]
               ELSE cfg
        bad == {i \in 1..Len(val.fields) :
                    validateField(v, val.fields[i]) # "nil"}
    IN  IF val.kind # "struct" THEN "expected struct"
        ELSE IF \E field \in v.Required :
                    \/ FieldByName(val, field).kind = "invalid"
                    \/ IsZero(FieldByName(val, field))
        THEN "required field is missing or empty"
        ELSE IF bad # {}
        THEN validateField(v, val.fields[CHOOSE i \in bad :
                                            \A j \in bad : i <= j])
        ELSE "nil"

RequiredNames == {"Host", "Port", "Absent"}
PatternFields == {"Host", "Port"}
RangeFields == {"Host", "Port", "Size"}
CustomFields == {"Size"}
\* The validators given to AddNestedValidator.
NestedValidators ==
    {[NewSchemaValidator EXCEPT !.Required = r] : r \in SUBSET {"Cert"}}

SvFrame ==
    UNCHANGED <<coreVars, stVars, gtVars, rftVars, optVars, cmpVars, envVars,
                genVars, clVars, nsVars, pmVars>>

\* validator.Required = names
SetRequired(names) ==
    /\ svResult = "none"
    /\ sv' = [sv EXCEPT !.Required = names]
    /\ UNCHANGED <<svCfg, svResult>>
    /\ SvFrame

AddPattern(field, pattern) ==
    /\ svResult = "none"
    /\ sv' = IF Compiles(pattern)
             THEN [sv EXCEPT !.Patterns = MapSet(@, field, pattern)]
             ELSE sv
    /\ UNCHANGED <<svCfg, svResult>>
    /\ SvFrame

AddRange(field, min, max) ==
    /\ svResult = "none"
    /\ sv' = [sv EXCEPT !.Ranges =
                 MapSet(@, field, [Min |-> min, Max |-> max])]
    /\ UNCHANGED <<svCfg, svResult>>
    /\ SvFrame

AddCustomValidator(field, validator) ==
    /\ svResult = "none"
    /\ sv' = [sv EXCEPT !.CustomValidators = MapSet(@, field, validator)]
    /\ UNCHANGED <<svCfg, svResult>>
    /\ SvFrame

AddNestedValidator(field, validator) ==
    /\ svResult = "none"
    /\ sv' = [sv EXCEPT !.Nested = MapSet(@, field, validator)]
    /\ UNCHANGED <<svCfg, svResult>>
    /\ SvFrame

\* A call of sv.Validate(cfg).
ValidateCall(cfg) ==
    /\ svResult = "none"
    /\ svCfg' = cfg
    /\ svResult' = Validate(sv, cfg)
    /\ UNCHANGED sv
    /\ SvFrame

\* The caller has the result.
ValidateReturned ==
    /\ svResult # "none"
    /\ svCfg' = InvalidValue
    /\ svResult' = "none"
    /\ UNCHANGED sv
    /\ SvFrame

InitSchema ==
    /\ sv = NewSchemaValidator
    /\ svCfg = InvalidValue
    /\ svResult = "none"

--------------------------------------------------------------------------
\* Generator (generator.go).
\*
\* The buffer is the sequence of the pieces written, a newline being the
\* piece "\n" of its own. began is not part of the program: it records
\* g.indent at the moment each line of the buffer was begun.

\* strings.Repeat(s, n) as pieces.
Repeat(s, n) == [i \in 1..n |-> s]

\* A value given to Field or Array. elems holds the elements of a slice
\* and the one entry of a map (its key in str).
GenScalar(k, s) == [kind |-> k, str |-> s, elems |-> <<>>]
GenSlice(es) == [kind |-> "slice", str |-> "", elems |-> es]
GenMap(key, v) == [kind |-> "map", str |-> key, elems |-> <<v>>]

\* The generator while a method runs: panic is set when strings.Repeat is
\* called with a negative count, and nothing is done after it.
Running == [buffer |-> buffer, indent |-> indent, began |-> began,
            panic |-> FALSE]

\* The pieces of toks that begin a line when toks is appended to buf.
LineBegins(buf, toks) ==
    {k \in 1..Len(toks) :
        IF k = 1 THEN buf = <<>> \/ buf[Len(buf)] = "\n"
        ELSE toks[k - 1] = "\n"}

\* g.buffer.WriteString of the pieces toks.
WriteString(g, toks) ==
    IF g.panic THEN g
    ELSE [g EXCEPT !.buffer = @ \o toks,
                   !.began = @ \o Repeat(g.indent,
                                  Cardinality(LineBegins(g.buffer, toks)))]

writeIndent(g) ==
    IF g.panic THEN g
    ELSE IF g.indent < 0 THEN [g EXCEPT !.panic = TRUE]
    ELSE WriteString(g, Repeat("    ", g.indent))

\* g.indent++ and g.indent--.
AddIndent(g, d) == IF g.panic THEN g ELSE [g EXCEPT !.indent = @ + d]

\* strings.Contains(name, " ") || strings.Contains(name, "-") on the names
\* used here.
NeedsBrackets(name) == name \in {"max-size", "my key"}

\* The name of a field or the key of a map as it is written.
writeKey(g, name) ==
    IF NeedsBrackets(name) THEN WriteString(g, <<"[\"", name, "\"]">>)
    ELSE WriteString(g, <<name>>)

RECURSIVE writeValue(_, _)
RECURSIVE writeElems(_, _, _)
\* The loop of writeValue over the elements of a slice, from the i-th on.
writeElems(g, es, i) ==
    IF i > Len(es) THEN g
    ELSE writeElems(writeValue(IF i > 1 THEN WriteString(g, <<", ">>) ELSE g,
                               es[i]),
                    es, i + 1)

writeValue(g, v) ==
    CASE v.kind = "nil" -> WriteString(g, <<"nil">>)
      [] v.kind = "string" -> WriteString(g, <<"\"", v.str, "\"">>)
      [] v.kind \in {"bool", "int"} -> WriteString(g, <<v.str>>)
      [] v.kind = "slice" ->
            WriteString(writeElems(WriteString(g, <<"{ ">>), v.elems, 1),
                        <<" }">>)
      [] v.kind = "map" ->
            LET g1 == AddIndent(WriteString(g, <<"{", "\n">>), 1)
                g2 == WriteString(writeKey(writeIndent(g1), v.str), <<" = ">>)
                g3 == WriteString(writeValue(g2, v.elems[1]), <<",", "\n">>)
            IN  WriteString(writeIndent(AddIndent(g3, -1)), <<"}">>)

\* strings.TrimSpace on a text given as pieces: the white pieces at both
\* ends are dropped.
IsSpace(tok) == tok \in {"    ", " ", "\n"}
RECURSIVE TrimSpace(_)
TrimSpace(code) ==
    IF code = <<>> THEN code
    ELSE IF IsSpace(code[1]) THEN TrimSpace(Tail(code))
    ELSE IF IsSpace(code[Len(code)])
    THEN TrimSpace(SubSeq(code, 1, Len(code) - 1))
    ELSE code

\* strings.Join(params, ", ").
RECURSIVE Join(_)
Join(params) ==
    IF params = <<>> THEN <<>>
    ELSE IF Len(params) = 1 THEN params
    ELSE <<params[1], ", ">> \o Join(Tail(params))

GenFrame ==
    UNCHANGED <<coreVars, stVars, gtVars, rftVars, optVars, cmpVars, envVars,
                svVars, clVars, nsVars, pmVars>>

\* A method returns and leaves the generator as g.
Called(method, g) ==
    /\ buffer' = g.buffer
    /\ indent' = g.indent
    /\ began' = g.began
    /\ gCall' = [method |-> method, panic |-> g.panic]
    /\ gCalls' = gCalls + 1
    /\ GenFrame

Generator_Table(name) ==
    /\ gCalls < MaxCalls
    /\ LET g1 == writeIndent(Running)
           g2 == IF name # "" THEN WriteString(g1, <<name, " = ">>) ELSE g1
       IN  Called("Table", AddIndent(WriteString(g2, <<"{", "\n">>), 1))

EndTable ==
    /\ gCalls < MaxCalls
    /\ LET g1 == WriteString(writeIndent(AddIndent(Running, -1)), <<"}">>)
       IN  Called("EndTable",
                  IF g1.indent = 0 THEN WriteString(g1, <<"\n">>)
                  ELSE WriteString(g1, <<",", "\n">>))

Generator_Field(name, value) ==
    /\ gCalls < MaxCalls
    /\ LET g1 == WriteString(writeKey(writeIndent(Running), name), <<" = ">>)
       IN  Called("Field", WriteString(writeValue(g1, value), <<",", "\n">>))

Array(values) ==
    /\ gCalls < MaxCalls
    /\ LET g1 == WriteString(writeIndent(Running), <<"{ ">>)
       IN  Called("Array",
                  WriteString(writeElems(g1, values, 1), <<" }", ",", "\n">>))

Comment(text) ==
    /\ gCalls < MaxCalls
    /\ Called("Comment",
              WriteString(writeIndent(Running),
                          <<"-- ">> \o text \o <<"\n">>))

Raw(code) ==
    /\ gCalls < MaxCalls
    /\ Called("Raw",
              WriteString(writeIndent(Running), TrimSpace(code) \o <<"\n">>))

Function(name, params) ==
    /\ gCalls < MaxCalls
    /\ LET g1 == writeIndent(Running)
           g2 == IF name # "" THEN WriteString(g1, <<"function ", name>>)
                 ELSE g1
           g3 == WriteString(g2, <<"(">> \o Join(params) \o <<")", "\n">>)
       IN  Called("Function", AddIndent(g3, 1))

EndFunction ==
    /\ gCalls < MaxCalls
    /\ Called("EndFunction",
              WriteString(writeIndent(AddIndent(Running, -1)),
                          <<"end", "\n">>))

Reset ==
    /\ buffer' = <<>>
    /\ indent' = 0
    /\ began' = <<>>
    /\ gCall' = [method |-> "Reset", panic |-> FALSE]
    /\ gCalls' = 0
    /\ GenFrame

\* NewGenerator().
InitGenerator ==
    /\ buffer = <<>>
    /\ indent = 0
    /\ began = <<>>
    /\ gCall = [method |-> "NewGenerator", panic |-> FALSE]
    /\ gCalls = 0

\* The arguments of the calls.
GenNames == {"", "tls"}
GenValues ==
    {GenScalar("int", "42"), GenScalar("string", "test"),
     GenSlice(<<GenScalar("string", "/api"), GenScalar("string", "/health")>>),
     GenMap("max-size", GenScalar("int", "42"))}
GenTexts == {<<"    ", "return result">>, <<"local a", "\n", "return a">>}

--------------------------------------------------------------------------
\* Config.Call.

\* The values a Lua function returns and a caller pushes on the stack.
CallValues ==
    {LScalar("LTString", "x"), LScalar("LTNumber", "1"), LNil,
     LScalar("LTFunction", "f")}

\* What a Lua function called with CallByParam does: it fails, or it
\* returns values.
CallOutcomes ==
    [err : BOOLEAN, rets : SeqUpTo(CallValues, MaxRets)]

NoCallSeen ==
    [fn |-> "", before |-> <<>>, rets |-> <<>>, result |-> <<>>,
     err |-> "none"]

\* The loop of Call over c.L.Get(1) .. c.L.Get(top): every value of the
\* stack st is converted with luaToGo to interface{}.
callResults(st) ==
    [i \in 1..Len(st) |-> luaToGo(st[i], ScalarType("interface")).val]
\* The first error of that loop, "nil" when there is none.
callResultsErr(st) ==
    LET bad == {i \in 1..Len(st) :
                   luaToGo(st[i], ScalarType("interface")).err # "nil"}
    IN  IF bad = {} THEN "nil"
        ELSE luaToGo(st[CHOOSE i \in bad : \A j \in bad : i <= j],
                     ScalarType("interface")).err

CallFrame ==
    UNCHANGED <<coreVars, stVars, gtVars, rftVars, optVars, cmpVars, envVars,
                svVars, genVars, nsVars, pmVars>>

\* cfg.L.Push(lv), as the tests push values.
LPush(lv) ==
    /\ clSeen.err = "none"
    /\ Len(lstack) < MaxStack
    /\ lstack' = Append(lstack, lv)
    /\ UNCHANGED clSeen
    /\ CallFrame

\* Call(funcName, args...): funcName is "f", a global function, or a name
\* that is no global; argsOk tells whether goToLua converts every
\* argument; out is what the function does.  The stack holds at most
\* MaxStack values.
Call(funcName, argsOk, out) ==
    /\ clSeen.err = "none"
    /\ Len(lstack) + Len(out.rets) <= MaxStack
    /\ LET after == lstack \o out.rets
           seen(res, err) ==
               [fn |-> funcName, before |-> lstack, rets |-> out.rets,
                result |-> res, err |-> err]
       IN  IF funcName # "f"
           THEN clSeen' = seen(<<>>, "ErrNotFound") /\ lstack' = lstack
           ELSE IF ~argsOk
           THEN clSeen' = seen(<<>>, "unsupported type") /\ lstack' = lstack
           ELSE IF out.err
           THEN clSeen' = seen(<<>>, "lua error") /\ lstack' = lstack
           ELSE IF callResultsErr(after) # "nil"
           THEN clSeen' = seen(<<>>, callResultsErr(after))
                /\ lstack' = after
           ELSE clSeen' = seen(callResults(after), "nil") /\ lstack' = <<>>
    /\ CallFrame

\* The caller of Call goes on.
CallSeenReturned ==
    /\ clSeen.err # "none"
    /\ clSeen' = NoCallSeen
    /\ UNCHANGED lstack
    /\ CallFrame

\* New(): the stack of a fresh Lua state is empty.
InitCall ==
    /\ lstack = <<>>
    /\ clSeen = NoCallSeen

--------------------------------------------------------------------------
\* RegisterLuaFunctionWithOptions with a namespace and aliases.

\* Lua values: nil, a number, a function, or a reference to the table id.
NsNil == [t |-> "nil", id |-> 0]
NsNum == [t |-> "number", id |-> 0]
NsFn == [t |-> "function", id |-> 0]
NsRef(i) == [t |-> "table", id |-> i]

NsKeys == {"_G", "a", "b", "f", "g"}
NsNames == {"", "f", "_G"}
NsNamespaces == {"", "_G", "a", "a.b"}
NsAliases == SeqUpTo({"g"}, 1)

\* L.NewTable().
NsNewTable == [k \in NsKeys |-> NsNil]

\* The table of the globals is table 1; the base library sets _G in it to
\* the table itself.
NsGlobals == 1
NsNewState == <<[NsNewTable EXCEPT !["_G"] = NsRef(NsGlobals)]>>

\* strings.Split(namespace, ".").
NsSplit(namespace) ==
    CASE namespace = "_G" -> <<"_G">>
      [] namespace = "a" -> <<"a">>
      [] namespace = "a.b" -> <<"a", "b">>
      [] OTHER -> <<"">>

RECURSIVE nestedTables(_, _, _, _)
\* The loop of registerInNamespace over parts[i:], table being the table
\* reached: a missing part is created, a part that is no table is an error.
nestedTables(h, table, parts, i) ==
    IF i > Len(parts) THEN [h |-> h, table |-> table, err |-> "nil"]
    ELSE LET next == h[table][parts[i]]
         IN  IF next = NsNil
             THEN nestedTables(
                      Append([h EXCEPT ![table][parts[i]] =
                                           NsRef(Len(h) + 1)],
                             NsNewTable),
                      Len(h) + 1, parts, i + 1)
             ELSE IF next.t = "table"
             THEN nestedTables(h, next.id, parts, i + 1)
             ELSE [h |-> h, table |-> table, err |-> "ErrInvalidType"]

\* registerInNamespace(namespace, name, fn) on the tables h: the tables
\* afterwards and the error.
registerInNamespace(h, namespace, name) ==
    LET parts == NsSplit(namespace)
        root == h[NsGlobals][parts[1]]
        h1 == IF root = NsNil
              THEN Append([h EXCEPT ![NsGlobals][parts[1]] =
                                        NsRef(Len(h) + 1)],
                          NsNewTable)
              ELSE h
    IN  IF root # NsNil /\ root.t # "table"
        THEN [h |-> h, err |-> "ErrInvalidType"]
        ELSE LET r == nestedTables(h1, h1[NsGlobals][parts[1]].id, parts, 2)
             IN  IF r.err # "nil" THEN [h |-> r.h, err |-> r.err]
                 ELSE [h |-> [r.h EXCEPT ![r.table][name] = NsFn],
                       err |-> "nil"]

RECURSIVE registerAll(_, _, _, _)
\* The registration of the name and then of each alias, from names[i]: in
\* the namespace, or as a global when the namespace is empty; the first
\* error is returned.
registerAll(h, namespace, names, i) ==
    IF i > Len(names) THEN [h |-> h, err |-> "nil"]
    ELSE IF namespace # ""
    THEN LET r == registerInNamespace(h, namespace, names[i])
         IN  IF r.err # "nil" THEN r
             ELSE registerAll(r.h, namespace, names, i + 1)
    ELSE registerAll([h EXCEPT ![NsGlobals][names[i]] = NsFn],
                     namespace, names, i + 1)

NoNsSeen ==
    [name |-> "", fnNil |-> FALSE, namespace |-> "", aliases |-> <<>>,
     before |-> <<>>, err |-> "none"]

NsFrame ==
    UNCHANGED <<coreVars, stVars, gtVars, rftVars, optVars, cmpVars, envVars,
                svVars, genVars, clVars, pmVars>>

\* A Lua chunk assigns v to the key k of the table t.
NsAssign(t, k, v) ==
    /\ nsSeen.err = "none"
    /\ t \in 1..Len(tables)
    /\ tables' = [tables EXCEPT ![t][k] = v]
    /\ UNCHANGED <<functionMetadata, nsSeen>>
    /\ NsFrame

\* RegisterLuaFunctionWithOptions(name, fn, opts) with opts.Namespace,
\* opts.Aliases and opts.Metadata.  At most MaxTables tables exist.
RegisterNamespaced(name, fnNil, namespace, aliases, meta) ==
    /\ nsSeen.err = "none"
    /\ Len(tables) + Len(NsSplit(namespace)) <= MaxTables
    /\ LET r == registerAll(tables, namespace, <<name>> \o aliases, 1)
           seen(err) ==
               [name |-> name, fnNil |-> fnNil, namespace |-> namespace,
                aliases |-> aliases, before |-> tables, err |-> err]
       IN  IF name = "" \/ fnNil
           THEN /\ nsSeen' = seen("ErrInvalidType")
                /\ UNCHANGED <<tables, functionMetadata>>
           ELSE /\ tables' = r.h
                /\ nsSeen' = seen(r.err)
                /\ functionMetadata' =
                       IF r.err = "nil" /\ meta
                       THEN functionMetadata \cup {name}
                       ELSE functionMetadata
    /\ NsFrame

\* The caller of RegisterLuaFunctionWithOptions goes on.
RegisterNamespacedReturned ==
    /\ nsSeen.err # "none"
    /\ nsSeen' = NoNsSeen
    /\ UNCHANGED <<tables, functionMetadata>>
    /\ NsFrame

InitNamespace ==
    /\ tables = NsNewState
    /\ functionMetadata = {}
    /\ nsSeen = NoNsSeen

--------------------------------------------------------------------------
\* PluginManager: LoadPlugins on one goroutine, GetPlugin and
\* CallPluginFunction on another.

\* What a file of the plugin directory is: its extension, and for a Lua
\* plugin whether its chunk fails, the name of its metadata table ("" when
\* the chunk sets no metadata), the functions of its exports table and the
\* names it passes to api.register_function.
PluginFile(ext, fails, name, exports, registers) ==
    [ext |-> ext, fails |-> fails, name |-> name, exports |-> exports,
     registers |-> registers]

PluginFiles ==
    {PluginFile(".lua", FALSE, "p", {"hello"}, <<>>),
     PluginFile(".lua", FALSE, "q", {}, <<"r">>),
     PluginFile(".lua", FALSE, "", {}, <<"r">>),
     PluginFile(".lua", TRUE, "p", {}, <<>>),
     PluginFile(".so", FALSE, "g", {}, <<>>),
     PluginFile(".so", TRUE, "g", {}, <<>>),
     PluginFile(".txt", FALSE, "", {}, <<>>)}

PluginNames == {"p", "q", "r", "g"}
ExportNames == {"hello", "r", "missing"}

\* A *Plugin: the index of its State in lstates (0 for a nil State) and the
\* names of its Exports; NoPlugin when the map has no entry.
NoPlugin == [ok |-> FALSE, State |-> 0, Exports |-> {}]
Plugin(state, exports) == [ok |-> TRUE, State |-> state, Exports |-> exports]

NoAccess == [op |-> "none", by |-> "none", held |-> TRUE]
NoCallFunction == [ran |-> FALSE, open |-> TRUE, outcome |-> "none"]

\* What running a function on a Lua state can do; on a closed state the
\* outcome is not defined by the Lua library.
CallOutcomesOn(open) ==
    IF open THEN {"result", "error"} ELSE {"result", "error", "panic"}

PmFrame ==
    UNCHANGED <<coreVars, stVars, gtVars, rftVars, optVars, cmpVars, envVars,
                svVars, genVars, clVars, nsVars>>

\* LoadPlugins(ctx, dir): os.ReadDir fails, or the loop over the entries
\* begins.
LoadPlugins(entries, readDirErr) ==
    /\ lpPc = "idle"
    /\ IF readDirErr
       THEN UNCHANGED <<lpPc, lpRest>>
       ELSE lpPc' = "loop" /\ lpRest' = entries
    /\ UNCHANGED <<plugins, lstates, pmMu, lpState, lpCalls, gpPc, gpName,
                   gpCall, gpPlugin, pmAccess, cpSeen>>
    /\ PmFrame

\* One round of the loop of LoadPlugins: the end of the entries, an entry
\* that is no plugin, the beginning of loadLuaPlugin (a new Lua state with
\* the api table, then the chunk runs), or loadGoPlugin up to its lock.
LoadEntry ==
    /\ lpPc = "loop"
    /\ IF lpRest = <<>>
       THEN /\ lpPc' = "idle"
            /\ UNCHANGED <<lpRest, lstates, lpState, lpCalls>>
       ELSE LET entry == Head(lpRest)
            IN  IF entry.ext = ".lua"
                THEN /\ Len(lstates) < MaxLStates
                     /\ lstates' = Append(lstates, "open")
                     /\ lpState' = Len(lstates) + 1
                     /\ lpCalls' = entry.registers
                     /\ lpPc' = "exec"
                     /\ UNCHANGED lpRest
                ELSE IF entry.ext = ".so"
                THEN /\ IF entry.fails
                        THEN lpPc' = "idle" /\ lpRest' = <<>>
                        ELSE lpPc' = "lock" /\ lpRest' = lpRest
                     /\ lpState' = 0
                     /\ UNCHANGED <<lstates, lpCalls>>
                ELSE /\ lpRest' = Tail(lpRest)
                     /\ UNCHANGED <<lpPc, lstates, lpState, lpCalls>>
    /\ UNCHANGED <<plugins, pmMu, gpPc, gpName, gpCall, gpPlugin, pmAccess,
                   cpSeen>>
    /\ PmFrame

\* The chunk of the plugin calls api.register_function(name, fn): the
\* closure of registerPluginAPI assigns pm.plugins[name] and takes no lock.
ApiRegisterFunction ==
    /\ lpPc = "exec"
    /\ lpCalls # <<>>
    /\ LET name == Head(lpCalls)
       IN  /\ plugins' = [plugins EXCEPT ![name] = Plugin(lpState, {name})]
           /\ pmAccess' = [op |-> "write", by |-> "LoadPlugins",
                           held |-> FALSE]
    /\ lpCalls' = Tail(lpCalls)
    /\ UNCHANGED <<lstates, pmMu, lpPc, lpRest, lpState, gpPc, gpName,
                   gpCall, gpPlugin, cpSeen>>
    /\ PmFrame

\* L.DoString returns.  An error of the chunk or a missing metadata table
\* ends loadLuaPlugin and LoadPlugins with an error; the deferred L.Close
\* runs.
DoStringReturns ==
    /\ lpPc = "exec"
    /\ lpCalls = <<>>
    /\ LET entry == Head(lpRest)
       IN  IF entry.fails \/ entry.name = ""
           THEN /\ lstates' = [lstates EXCEPT ![lpState] = "closed"]
                /\ lpPc' = "idle"
                /\ lpRest' = <<>>
           ELSE /\ lpPc' = "lock"
                /\ UNCHANGED <<lstates, lpRest>>
    /\ UNCHANGED <<plugins, pmMu, lpState, lpCalls, gpPc, gpName, gpCall,
                   gpPlugin, pmAccess, cpSeen>>
    /\ PmFrame

\* pm.mu.Lock(); pm.plugins[plugin.Name] = plugin, of loadLuaPlugin and of
\* loadGoPlugin.
LoadLock ==
    /\ lpPc = "lock"
    /\ ~pmMu.writer /\ pmMu.readers = 0
    /\ pmMu' = [pmMu EXCEPT !.writer = TRUE]
    /\ LET entry == Head(lpRest)
       IN  plugins' = [plugins EXCEPT ![entry.name] =
                                      Plugin(lpState, entry.exports)]
    /\ pmAccess' = [op |-> "write", by |-> "LoadPlugins", held |-> TRUE]
    /\ lpPc' = "unlock"
    /\ UNCHANGED <<lstates, lpRest, lpState, lpCalls, gpPc, gpName, gpCall,
                   gpPlugin, cpSeen>>
    /\ PmFrame

\* pm.mu.Unlock() and the return of loadLuaPlugin, where the deferred
\* L.Close() runs, or of loadGoPlugin; the loop goes on.
LoadUnlock ==
    /\ lpPc = "unlock"
    /\ pmMu' = [pmMu EXCEPT !.writer = FALSE]
    /\ lstates' = IF lpState # 0
                  THEN [lstates EXCEPT ![lpState] = "closed"]
                  ELSE lstates
    /\ lpRest' = Tail(lpRest)
    /\ lpPc' = "loop"
    /\ UNCHANGED <<plugins, lpState, lpCalls, gpPc, gpName, gpCall,
                   gpPlugin, pmAccess, cpSeen>>
    /\ PmFrame

\* GetPlugin(name), called by the program (call is "") or by
\* CallPluginFunction(ctx, name, call): pm.mu.RLock().
GetPlugin(name, call) ==
    /\ gpPc = "idle"
    /\ ~pmMu.writer
    /\ pmMu' = [pmMu EXCEPT !.readers = @ + 1]
    /\ gpPc' = "rlocked"
    /\ gpName' = name
    /\ gpCall' = call
    /\ UNCHANGED <<plugins, lstates, lpPc, lpRest, lpState, lpCalls,
                   gpPlugin, pmAccess, cpSeen>>
    /\ PmFrame

\* plugin, ok := pm.plugins[name].
GetPluginRead ==
    /\ gpPc = "rlocked"
    /\ gpPlugin' = plugins[gpName]
    /\ pmAccess' = [op |-> "read", by |-> "GetPlugin", held |-> TRUE]
    /\ gpPc' = "read"
    /\ UNCHANGED <<plugins, lstates, pmMu, lpPc, lpRest, lpState, lpCalls,
                   gpName, gpCall, cpSeen>>
    /\ PmFrame

\* The deferred pm.mu.RUnlock().
GetPluginRUnlock ==
    /\ gpPc = "read"
    /\ pmMu' = [pmMu EXCEPT !.readers = @ - 1]
    /\ gpPc' = IF gpCall = "" THEN "returned" ELSE "call"
    /\ UNCHANGED <<plugins, lstates, lpPc, lpRest, lpState, lpCalls, gpName,
                   gpCall, gpPlugin, pmAccess, cpSeen>>
    /\ PmFrame

\* CallPluginFunction after GetPlugin: an unknown plugin and a function
\* that is not exported are errors; an exported function, a *lua.LFunction,
\* is run by callLuaFunction on plugin.State.
CallPluginFunction(outcome) ==
    /\ gpPc = "call"
    /\ IF gpPlugin.ok /\ gpCall \in gpPlugin.Exports
       THEN LET open == lstates[gpPlugin.State] = "open"
            IN  /\ outcome \in CallOutcomesOn(open)
                /\ cpSeen' = [ran |-> TRUE, open |-> open,
                              outcome |-> outcome]
       ELSE /\ outcome = "error"
            /\ cpSeen' = [ran |-> FALSE, open |-> TRUE, outcome |-> outcome]
    /\ gpPc' = "returned"
    /\ UNCHANGED <<plugins, lstates, pmMu, lpPc, lpRest, lpState, lpCalls,
                   gpName, gpCall, gpPlugin, pmAccess>>
    /\ PmFrame

\* The caller of GetPlugin or CallPluginFunction goes on.
GetPluginReturned ==
    /\ gpPc = "returned"
    /\ gpPc' = "idle"
    /\ gpName' = ""
    /\ gpCall' = ""
    /\ gpPlugin' = NoPlugin
    /\ cpSeen' = NoCallFunction
    /\ pmAccess' = NoAccess
    /\ UNCHANGED <<plugins, lstates, pmMu, lpPc, lpRest, lpState, lpCalls>>
    /\ PmFrame

\* NewPluginManager.
InitPluginManager ==
    /\ plugins = [n \in PluginNames |-> NoPlugin]
    /\ lstates = <<>>
    /\ pmMu = [writer |-> FALSE, readers |-> 0]
    /\ lpPc = "idle"
    /\ lpRest = <<>>
    /\ lpState = 0
    /\ lpCalls = <<>>
    /\ gpPc = "idle"
    /\ gpName = ""
    /\ gpCall = ""
    /\ gpPlugin = NoPlugin
    /\ pmAccess = NoAccess
    /\ cpSeen = NoCallFunction

\* No call of Get.
InitGetNone == InitGet(LNil, StructType(<<>>))

\* Every part but the first three, before any of its operations is used.
InitExt ==
    /\ InitStack
    /\ InitGetNone
    /\ InitRft
    /\ InitOpt
    /\ InitCompose
    /\ InitEnv
    /\ InitSchema
    /\ InitGenerator
    /\ InitCall
    /\ InitNamespace
    /\ InitPluginManager

--------------------------------------------------------------------------
\* Specifications.

\* No watcher activity: the variables of the watcher at rest.
InitWatcher(ps, cb) ==
    /\ wpaths = ps
    /\ added = ps
    /\ wCall = NoCall
    /\ now = 0
    /\ timers = <<>>
    /\ debounceTimer = 0
    /\ evCount = 0
    /\ stopClosed = FALSE
    /\ eventsClosed = FALSE
    /\ closePc = "open"
    /\ closePanicked = FALSE
    /\ watchPc = "select"
    /\ reloadOf = 0
    /\ reloadPc = "idle"
    /\ reloadPaths = <<>>
    /\ reloadSet = {}
    /\ reloadErr = "nil"
    /\ reloadLog = <<>>
    /\ onReloadArg = "none"
    /\ onReloadSet = cb


\* No middleware, no registered function, no call.
InitMwNone ==
    /\ middlewares = <<>>
    /\ fnChain = [n \in FnNames |-> <<>>]
    /\ callPc = "idle"
    /\ callRest = <<>>
    /\ callActive = <<>>
    /\ callArgs = "ok"
    /\ callFn = "ok"
    /\ callResult = "none"
    /\ order = <<>>

\* New(WithSandbox(sb)): a fresh Lua state, no hook, nothing running.
InitCfg(sb) ==
    /\ hooks = [t \in HookTypes |-> <<>>]
    /\ sandbox = sb
    /\ muReaders = 0
    /\ G = NewState
    /\ memLimit = 0
    /\ preloadNil = {}
    /\ opKind = "none"
    /\ lfPc = "idle"
    /\ lfFile = "error"
    /\ lfSnap = <<>>
    /\ lfStartHooks = [t \in {"BeforeLoad", "AfterLoad"} |-> <<>>]
    /\ lfResult = "none"
    /\ hookCalls = <<>>
    /\ usingL = {}
    /\ getPc = "idle"
    /\ getResult = "none"

\* New(WithMiddleware(m1), ..., WithMiddleware(mn)).
InitMw ==
    /\ middlewares \in SeqUpTo(MwIds, MaxMw)
    /\ fnChain = [n \in FnNames |-> <<>>]
    /\ callPc = "idle"
    /\ callRest = <<>>
    /\ callActive = <<>>
    /\ callArgs = "ok"
    /\ callFn = "ok"
    /\ callResult = "none"
    /\ order = <<>>

NextMw ==
    \/ \E n \in FnNames, f \in BOOLEAN : RegisterFunction(n, f)
    \/ \E n \in FnNames, a \in {"ok", "err", "mismatch"},
          f \in {"ok", "err", "panic"} : CallFromLua(n, a, f)
    \/ EnterMiddleware
    \/ RunGoClosure
    \/ LeaveMiddleware
    \/ ReturnToLua
    \/ RecoverPanic
    \/ CallReturned

\* A Config with middlewares, functions registered on it and called.
InitSpecMw ==
    /\ InitMw
    /\ InitCfg(DefaultSandbox)
    /\ InitWatcher({}, FALSE)
    /\ InitExt

SpecMw == InitSpecMw /\ [][NextMw]_vars

\* A Config with any sandbox and no hook: LoadFile, DoString and a Get on
\* another goroutine.
NextSandbox ==
    \/ \E f \in Scripts : LoadFile(f)
    \/ ApplySandboxAndEnterDoFile
    \/ LeaveDoFile
    \/ AfterHooksDone
    \/ \E s \in Scripts : DoString(s)
    \/ OperationReturned
    \/ GetBegin
    \/ GetEnd

InitSandbox ==
    /\ InitMwNone
    /\ InitExt
    /\ InitWatcher({}, FALSE)
    /\ \E sb \in Sandboxes : InitCfg(sb)

SpecSandbox == InitSandbox /\ [][NextSandbox]_vars

\* A Config with New's sandbox or with file I/O enabled, on which hooks are
\* registered.
NextHooks ==
    \/ \E t \in HookTypes : RegisterHook(t)
    \/ \E f \in Scripts : LoadFile(f)
    \/ \E b \in BOOLEAN : InvokeHook(b)
    \/ ApplySandboxAndEnterDoFile
    \/ LeaveDoFile
    \/ AfterHooksDone
    \/ OperationReturned

InitHooks ==
    /\ InitMwNone
    /\ InitExt
    /\ InitWatcher({}, FALSE)
    /\ \E io \in BOOLEAN : InitCfg([DefaultSandbox EXCEPT !.EnableFileIO = io])

SpecHooks == InitHooks /\ [][NextHooks]_vars


\* NewWatcher returned a watcher: every path of wcfg.Paths was added and the
\* watch goroutine runs.
InitWatch ==
    /\ InitMwNone
    /\ InitExt
    /\ InitCfg(DefaultSandbox)
    /\ \E ps \in SUBSET RawPaths, cb \in BOOLEAN :
          InitWatcher({Abs(p) : p \in ps}, cb)

\* The watcher: events, the debounce timer, reloads and Close.
NextWatch ==
    \/ \E op \in EventOps : HandleEvent(op)
    \/ HandleError
    \/ ObserveClosedChannel
    \/ ObserveStop
    \/ CloseStopChan
    \/ CloseWatcher
    \/ Tick
    \/ \E i \in DOMAIN timers : TimerFire(i)
    \/ \E i \in DOMAIN timers : \E ps \in Perms(wpaths) : ReloadBegin(i, ps)
    \/ \E ok \in BOOLEAN : ReloadLoadFile(ok)
    \/ ReloadCallOnReload
    \/ ReloadReturn

SpecWatch == InitWatch /\ [][NextWatch]_vars

\* The goroutines of the timers and of the reloads run when they can, and
\* time passes.
FairWatch ==
    /\ WF_vars(Tick)
    /\ WF_vars(\E i \in DOMAIN timers : TimerFire(i))
    /\ WF_vars(\E i \in DOMAIN timers :
                  \E ps \in Perms(wpaths) : ReloadBegin(i, ps))
    /\ WF_vars(\E ok \in BOOLEAN : ReloadLoadFile(ok))
    /\ WF_vars(ReloadCallOnReload)
    /\ WF_vars(ReloadReturn)

SpecWatchFair == SpecWatch /\ FairWatch

\* The watcher while it is open, with AddPath and RemovePath called as it
\* runs.
NextPaths ==
    \/ \E p \in RawPaths, cwdOk \in BOOLEAN, fsOk \in BOOLEAN :
          AddPath(p, cwdOk, fsOk)
    \/ \E p \in RawPaths, cwdOk \in BOOLEAN, fsOk \in BOOLEAN :
          RemovePath(p, cwdOk, fsOk)
    \/ PathCallReturned
    \/ \E op \in EventOps : HandleEvent(op)
    \/ Tick
    \/ \E i \in DOMAIN timers : TimerFire(i)
    \/ \E i \in DOMAIN timers : \E ps \in Perms(wpaths) : ReloadBegin(i, ps)
    \/ \E ok \in BOOLEAN : ReloadLoadFile(ok)
    \/ ReloadCallOnReload
    \/ ReloadReturn

SpecPaths == InitWatch /\ [][NextPaths]_vars

\* A Config on which the stack methods are called.
NextStack ==
    \/ \E gv \in GoValues : PushValue(gv)
    \/ PopValue
    \/ \E pos \in 0..(MaxStack + 1) : PeekValue(pos)
    \/ \E pos \in 0..(MaxStack + 1) : GetRawLuaValue(pos)
    \/ ClearStack
    \/ StackCallReturned

InitSpecStack ==
    /\ InitMwNone
    /\ InitCfg(DefaultSandbox)
    /\ InitWatcher({}, FALSE)
    /\ InitExt

SpecStack == InitSpecStack /\ [][NextStack]_vars

\* A script has set the global; Get is called with a zeroed target.
NextGet ==
    \/ GetCall
    \/ GetReturned

InitSpecGet ==
    /\ InitMwNone
    /\ InitCfg(DefaultSandbox)
    /\ InitWatcher({}, FALSE)
    /\ InitStack
    /\ InitRft
    /\ InitOpt
    /\ InitCompose
    /\ InitEnv
    /\ InitSchema
    /\ InitGenerator
    /\ InitCall
    /\ InitNamespace
    /\ InitPluginManager
    /\ \E lv \in LuaGlobals, t \in TargetTypes : InitGet(lv, t)

SpecGet == InitSpecGet /\ [][NextGet]_vars

\* A Config on which BeforeExec and AfterExec hooks are registered and
\* RegisterFunctionTable is called.
NextRft ==
    \/ \E t \in {"BeforeExec", "AfterExec"} : RegisterHook(t)
    \/ \E n \in TableNames, f \in FuncMaps : RegisterFunctionTable(n, f)
    \/ \E b \in BOOLEAN : InvokeExecHook(b)
    \/ WrapAndSetGlobal
    \/ AfterExecDone
    \/ RftReturned

InitSpecRft ==
    /\ InitMwNone
    /\ InitCfg(DefaultSandbox)
    /\ InitWatcher({}, FALSE)
    /\ InitExt

SpecRft == InitSpecRft /\ [][NextRft]_vars

\* A Config with a middleware map, a function registered with options and
\* calls of it from Lua.
NextOpt ==
    \/ \E map \in SUBSET MapNames : SetMiddlewareMap(map)
    \/ \E n \in {"", "secure"}, fnNil \in BOOLEAN,
          names \in SeqUpTo(MiddlewareNames, MaxNames),
          b \in BOOLEAN, a \in BOOLEAN :
          RegisterLuaFunctionWithOptions(n, fnNil, names, b, a)
    \/ \E e \in BOOLEAN, f \in {"ok", "panic"} : CallWrapper(e, f)
    \/ WrapperEnterMiddleware
    \/ WrapperRunFunction
    \/ WrapperReturned

InitSpecOpt ==
    /\ InitMwNone
    /\ InitCfg(DefaultSandbox)
    /\ InitWatcher({}, FALSE)
    /\ InitExt

SpecOpt == InitSpecOpt /\ [][NextOpt]_vars

\* A Config on which functions are composed and the composition is called.
NextCompose ==
    \/ \E n \in {"", "doubleAndAddOne"},
          fs \in SeqUpTo(LuaFuncNames, MaxFuncs) : ComposeFunctions(n, fs)
    \/ \E args \in SeqUpTo({1, 5}, 2) : CallComposed(args)
    \/ ComposedStep
    \/ ComposedReturn
    \/ ComposedReturned

InitSpecCompose ==
    /\ InitMwNone
    /\ InitCfg(DefaultSandbox)
    /\ InitWatcher({}, FALSE)
    /\ InitExt

SpecCompose == InitSpecCompose /\ [][NextCompose]_vars

\* An EnvManager on which environments are registered and activated.
NextEnv ==
    \/ \E env \in Environments, e \in BOOLEAN, x \in BOOLEAN :
          RegisterEnvironment(env, e, x)
    \/ \E n \in {"dev", "prod"} : ActivateEnvironment(n)
    \/ \E ok \in BOOLEAN : ActivateStep(ok)
    \/ ActivateDone
    \/ ActivateReturned

InitSpecEnv ==
    /\ InitMwNone
    /\ InitCfg(DefaultSandbox)
    /\ InitWatcher({}, FALSE)
    /\ InitExt

SpecEnv == InitSpecEnv /\ [][NextEnv]_vars

NextSchema ==
    \/ \E names \in SUBSET RequiredNames : SetRequired(names)
    \/ \E f \in PatternFields, p \in {HostPattern, "("} : AddPattern(f, p)
    \/ \E f \in RangeFields : AddRange(f, 1, MaxNum - 1)
    \/ \E f \in CustomFields : AddCustomValidator(f, "between")
    \/ \E f \in {"TLS"}, v \in NestedValidators : AddNestedValidator(f, v)
    \/ \E cfg \in SchemaConfigs : ValidateCall(cfg)
    \/ ValidateReturned

InitSpecSchema ==
    /\ InitMwNone
    /\ InitCfg(DefaultSandbox)
    /\ InitWatcher({}, FALSE)
    /\ InitExt

SpecSchema == InitSpecSchema /\ [][NextSchema]_vars

NextGenerator ==
    \/ \E name \in GenNames : Generator_Table(name)
    \/ EndTable
    \/ \E name \in {"port", "max-size"}, v \in GenValues :
          Generator_Field(name, v)
    \/ \E vs \in {<<GenScalar("int", "1"), GenScalar("int", "2")>>} : Array(vs)
    \/ \E text \in GenTexts : Comment(text)
    \/ \E code \in GenTexts : Raw(code)
    \/ \E name \in {"", "process"}, ps \in {<<>>, <<"name", "value">>} :
          Function(name, ps)
    \/ EndFunction
    \/ Reset

InitSpecGenerator ==
    /\ InitMwNone
    /\ InitCfg(DefaultSandbox)
    /\ InitWatcher({}, FALSE)
    /\ InitExt

SpecGenerator == InitSpecGenerator /\ [][NextGenerator]_vars

\* A Config with any memory limit, with file I/O enabled or not, on which
\* hooks are registered and files are loaded.
InitLoad ==
    /\ InitMwNone
    /\ InitExt
    /\ InitWatcher({}, FALSE)
    /\ \E io \in BOOLEAN, m \in MemSizes :
          InitCfg([DefaultSandbox EXCEPT !.EnableFileIO = io,
                                         !.MaxMemory = m])

SpecLoad == InitLoad /\ [][NextHooks]_vars

\* The two environments of the test are registered; environments are
\* activated, by a name that is registered or not.
TestEnvironments ==
    [n \in {"dev", "prod"} |->
        [Name |-> n, BaseConfig |-> "base.lua",
         EnvConfig |-> IF n = "dev" THEN "dev.lua" ELSE "prod.lua",
         EnvPrefix |-> "APP_", IncludePaths |-> <<"inc1.lua">>]]

InitSpecActivate ==
    /\ InitMwNone
    /\ InitCfg(DefaultSandbox)
    /\ InitWatcher({}, FALSE)
    /\ InitStack
    /\ InitGetNone
    /\ InitRft
    /\ InitOpt
    /\ InitCompose
    /\ InitSchema
    /\ InitGenerator
    /\ InitCall
    /\ InitNamespace
    /\ InitPluginManager
    /\ environments = TestEnvironments
    /\ activeEnv = ""
    /\ luaVars = [k \in EnvKeys |-> "nil"]
    /\ aePc = "idle"
    /\ aeName = ""
    /\ aeSteps = <<>>
    /\ aeLog = <<>>
    /\ aeStart = [k \in EnvKeys |-> "nil"]
    /\ aeResult = "none"

NextActivate ==
    \/ \E n \in {"dev", "prod", "staging"} : ActivateEnvironment(n)
    \/ \E ok \in BOOLEAN : ActivateStep(ok)
    \/ ActivateDone
    \/ ActivateReturned

SpecActivate == InitSpecActivate /\ [][NextActivate]_vars

NextCall ==
    \/ \E lv \in CallValues : LPush(lv)
    \/ \E n \in {"f", "missing"}, a \in BOOLEAN, out \in CallOutcomes :
          Call(n, a, out)
    \/ CallSeenReturned

InitSpecCall ==
    /\ InitMwNone
    /\ InitCfg(DefaultSandbox)
    /\ InitWatcher({}, FALSE)
    /\ InitExt

SpecCall == InitSpecCall /\ [][NextCall]_vars

NextNamespace ==
    \/ \E t \in 1..MaxTables, k \in {"a", "b"} : NsAssign(t, k, NsNum)
    \/ \E n \in NsNames, fnNil \in BOOLEAN, ns \in NsNamespaces,
          al \in NsAliases, meta \in BOOLEAN :
          RegisterNamespaced(n, fnNil, ns, al, meta)
    \/ RegisterNamespacedReturned

InitSpecNamespace ==
    /\ InitMwNone
    /\ InitCfg(DefaultSandbox)
    /\ InitWatcher({}, FALSE)
    /\ InitExt

SpecNamespace == InitSpecNamespace /\ [][NextNamespace]_vars

NextPlugins ==
    \/ \E entries \in SeqUpTo(PluginFiles, MaxEntries), e \in BOOLEAN :
          LoadPlugins(entries, e)
    \/ LoadEntry
    \/ ApiRegisterFunction
    \/ DoStringReturns
    \/ LoadLock
    \/ LoadUnlock
    \/ \E n \in PluginNames, call \in ExportNames \cup {""} :
          GetPlugin(n, call)
    \/ GetPluginRead
    \/ GetPluginRUnlock
    \/ \E o \in {"result", "error", "panic"} : CallPluginFunction(o)
    \/ GetPluginReturned

InitSpecPlugins ==
    /\ InitMwNone
    /\ InitCfg(DefaultSandbox)
    /\ InitWatcher({}, FALSE)
    /\ InitExt

SpecPlugins == InitSpecPlugins /\ [][NextPlugins]_vars







--------------------------------------------------------------------------
\* Properties of the middleware chain.

Reverse(s) == [i \in 1..Len(s) |-> s[Len(s) + 1 - i]]
Befores(mws) == [i \in 1..Len(mws) |-> <<"before", mws[i]>>]
Afters(mws) == [i \in 1..Len(mws) |-> <<"after", mws[i]>>]
CallPanicked ==
    callArgs = "mismatch" \/ (callArgs = "ok" /\ callFn = "panic")

\* C1 (as stated): every call of a registered function enters the
\* middlewares in registration order, runs the Go function exactly once and
\* leaves the middlewares in reverse order.
C1_EveryCallRunsFunctionOnce ==
    callPc = "done" =>
        order = Befores(middlewares) \o <<<<"execute", 0>>>>
                    \o Afters(Reverse(middlewares))

\* C1 (amended): every call enters the middlewares in registration order;
\* the Go function then runs exactly once when the arguments convert to its
\* parameter types and not at all otherwise; unless the call panicked the
\* middlewares are then left in reverse order.
C1_MiddlewareOrder ==
    callPc = "done" =>
        order = Befores(middlewares)
                    \o (IF callArgs = "ok" THEN <<<<"execute", 0>>>> ELSE <<>>)
                    \o (IF CallPanicked THEN <<>>
                        ELSE Afters(Reverse(middlewares)))

\* A call through two different middlewares that ran the Go function and
\* returned its result.
C1_Witness ==
    /\ callPc = "done"
    /\ Len(middlewares) >= 2
    /\ middlewares[1] # middlewares[2]
    /\ callArgs = "ok"
    /\ callResult = "pushed"

--------------------------------------------------------------------------
\* Properties of LoadFile, DoString and Get.

HooksRun(hookType, n) == [i \in 1..n |-> <<hookType, i>>]
LoadFileSucceeded ==
    opKind = "LoadFile" /\ lfPc = "done" /\ lfResult = "nil"

\* C2: a successful LoadFile has run every BeforeLoad hook registered when
\* it was called, in registration order, then executed the file, then run
\* every AfterLoad hook registered when it was called, and has run no
\* BeforeExec and no AfterExec hook.
C2_LoadFileHooks ==
    LoadFileSucceeded =>
        \E b \in 0..Len(hooks["BeforeLoad"]), a \in 0..Len(hooks["AfterLoad"]) :
            /\ b = Len(lfStartHooks["BeforeLoad"])
            /\ a >= Len(lfStartHooks["AfterLoad"])
            /\ hookCalls = HooksRun("BeforeLoad", b) \o <<<<"exec", 0>>>>
                               \o HooksRun("AfterLoad", a)

\* One hook of each of the four types was registered before the LoadFile,
\* and the hooks observed are before_load, after_load.
C2_Witness ==
    /\ LoadFileSucceeded
    /\ \A t \in HookTypes : Len(hooks[t]) = 1
    /\ \A t \in DOMAIN lfStartHooks : Len(lfStartHooks[t]) = 1
    /\ SelectSeq(hookCalls, LAMBDA e : e[1] # "exec")
           = <<<<"BeforeLoad", 1>>, <<"AfterLoad", 1>>>>

\* C5: a Get on one goroutine and a LoadFile on another are never inside a
\* call on the shared Lua state at the same time.
C5_NoConcurrentLuaAccess == ~({"loader", "getter"} \subseteq usingL)

\* C6: a DoString of a script that calls io.open, on a Config whose sandbox
\* has EnableFileIO false, fails.
C6_DoStringIoOpenFails ==
    (opKind = "DoString" /\ lfPc = "done" /\ lfFile = "io_open"
        /\ ~sandbox.EnableFileIO) => lfResult # "nil"

\* The step of LoadFile that runs applySandboxRestrictions.
SandboxStep == lfPc = "before" /\ lfSnap = <<>> /\ lfPc' # lfPc

\* C7: applySandboxRestrictions with EnableFileIO false leaves io, dofile,
\* loadfile and load nil, and with EnableFileIO true leaves them as they
\* were; a file that calls io.open, loaded with EnableFileIO false, fails.
C7_FileGlobalsRemoved ==
    /\ [][SandboxStep =>
            IF sandbox.EnableFileIO
            THEN \A n \in fileGlobals : G'[n] = G[n]
            ELSE \A n \in fileGlobals : G'[n] = Nil]_vars
    /\ []((opKind = "LoadFile" /\ lfPc = "done" /\ lfFile = "io_open"
             /\ ~sandbox.EnableFileIO) => lfResult # "nil")

\* A LoadFile of a file that calls io.open has failed in the execution of
\* the file, file I/O being disabled.
C7_Witness ==
    /\ opKind = "LoadFile" /\ lfPc = "done" /\ lfFile = "io_open"
    /\ lfResult = "ErrExecution"
    /\ ~sandbox.EnableFileIO
    /\ \A n \in fileGlobals : G[n] = Nil

\* C8: once the restrictions are applied with EnableFileIO false, the table
\* under the global name os holds no file operation: it is empty, or holds
\* clock, date, difftime and time when EnableSyscalls is true.
C8_OsHasNoFileOps ==
    (opKind = "LoadFile" /\ lfPc = "dofile" /\ ~sandbox.EnableFileIO) =>
        /\ G["os"].kind = "table"
        /\ DOMAIN G["os"].t \cap OsFileOps = {}
        /\ DOMAIN G["os"].t = IF sandbox.EnableSyscalls THEN safeOSFuncs ELSE {}

--------------------------------------------------------------------------
\* Properties of the ConfigWatcher.

\* The timer has fired: its reload is waiting, running or over.
HasFired(t) == t.st \in {"fired", "reloading", "reloaded"}
SeqSet(s) == {s[i] : i \in DOMAIN s}

\* C3: once Close has returned and the watch goroutine has observed the
\* stop signal or the closed event channel, whichever came first, the
\* pending timer is stopped: no timer fires, and no reload starts.
C3_NoReloadAfterClose ==
    [][(closePc = "closed" /\ watchPc = "returned") =>
          \A i \in DOMAIN timers :
              ~(timers[i].st = "armed" /\ timers'[i].st = "fired")]_vars

\* C4: at most one timer is pending; a reload starts DebounceInterval after
\* a Write or Create event, and only when no other such event arrived less
\* than DebounceInterval after it: of a burst of events less than
\* DebounceInterval apart only the last one starts a reload.
C4_Debounce ==
    /\ Cardinality({i \in DOMAIN timers : timers[i].st = "armed"}) <= 1
    /\ \A i \in DOMAIN timers :
          HasFired(timers[i]) =>
             /\ timers[i].firedAt = timers[i].armedAt + DebounceInterval
             /\ \A j \in DOMAIN timers :
                   j > i => timers[j].armedAt - timers[i].armedAt
                               >= DebounceInterval

\* Two events less than DebounceInterval apart: the timer of the first was
\* stopped and the reload of the second is over.
C4_Witness ==
    /\ Len(timers) >= 2
    /\ timers[2].armedAt - timers[1].armedAt < DebounceInterval
    /\ timers[1].st = "stopped"
    /\ timers[2].st = "reloaded"

PathCallStep(op) == wCall.op = "none" /\ wCall'.op = op

\* C10: w.paths is the set of paths added by a call that returned nil and
\* not removed since by a call that returned nil, and a reload copies
\* exactly that set; AddPath of a watched path and RemovePath of a path
\* that is not watched return nil and change nothing; a call that the file
\* watcher refuses returns its error and changes nothing.
C10_WatchedPaths ==
    /\ [](wpaths = added)
    /\ [][(reloadPc = "idle" /\ reloadPc' = "loading") =>
             /\ reloadSet' = added
             /\ SeqSet(reloadPaths') = added
             /\ Len(reloadPaths') = Cardinality(added)]_vars
    /\ [][(PathCallStep("AddPath") /\ wCall'.was = "watched") =>
             (wCall'.err = "nil" /\ wpaths' = wpaths)]_vars
    /\ [][(PathCallStep("RemovePath") /\ wCall'.was = "unwatched") =>
             (wCall'.err = "nil" /\ wpaths' = wpaths)]_vars
    /\ [][(((PathCallStep("AddPath") /\ wCall'.was = "unwatched")
              \/ (PathCallStep("RemovePath") /\ wCall'.was = "watched"))
            /\ wCall'.fs = "fails") =>
             (wCall'.err = "err" /\ wpaths' = wpaths)]_vars

\* A reload copied the one path that is left after a path was removed,
\* while an AddPath that the file watcher refused has just returned.
C10_Witness ==
    /\ reloadPc = "loading"
    /\ reloadSet = {"/w/b.lua"}
    /\ added = {"/w/b.lua"}
    /\ wCall.op = "AddPath" /\ wCall.was = "unwatched" /\ wCall.fs = "fails"

--------------------------------------------------------------------------
\* Properties of the stack methods.

\* The Go form in which a pushed value comes back.
GoForm(gv) ==
    IF gv.k \in {"int", "float64"} THEN [k |-> "float64", v |-> gv.v]
    ELSE gv

PopStep == stCall.op = "none" /\ stCall'.op = "PopValue"

\* C11: PopValue returns the value pushed last among those not yet popped,
\* as a Go string, float64 or bool; on an empty stack it returns an error
\* and the stack stays empty.
C11_PopIsLifo ==
    [][PopStep =>
          /\ (stack = <<>> => stCall'.err # "nil" /\ stack' = <<>>)
          /\ (pushed # <<>> =>
                 /\ stCall'.err = "nil"
                 /\ stCall'.val = GoForm(pushed[Len(pushed)])
                 /\ pushed' = SubSeq(pushed, 1, Len(pushed) - 1))]_vars

C11_Witness ==
    /\ stCall.op = "PopValue"
    /\ stCall.err = "nil"
    /\ stCall.val = [k |-> "float64", v |-> "42"]
    /\ Len(pushed) = 2
    /\ pushed[1] # pushed[2]

StackStep == stCall.op = "none" /\ stCall'.op # "none"

\* C12: GetStackSize is the number of values pushed and not yet popped or
\* cleared; a successful push adds one, a successful pop removes one,
\* ClearStack leaves none, PeekValue and GetRawLuaValue leave the stack as
\* it is, in range or not.
C12_StackSize ==
    /\ [](GetStackSize = Len(pushed))
    /\ [][StackStep =>
             /\ (stCall'.op = "PushValue" /\ stCall'.err = "nil" =>
                    Len(stack') = Len(stack) + 1)
             /\ (stCall'.op = "PopValue" /\ stCall'.err = "nil" =>
                    Len(stack') = Len(stack) - 1)
             /\ (stCall'.op = "ClearStack" => Len(stack') = 0)
             /\ (stCall'.op \in {"PeekValue", "GetRawLuaValue"} =>
                    stack' = stack)]_vars

C12_Witness ==
    /\ stCall.op = "PeekValue"
    /\ stCall.pos = 2
    /\ stCall.err = "nil"
    /\ GetStackSize = 3

--------------------------------------------------------------------------
\* Properties of Get.

NumberKinds == {"int", "uint", "float64"}

\* A string, number or boolean field given a Lua value of another type.
Mismatch(lv, t) ==
    /\ lv.t # "LTNil"
    /\ \/ Kind(t) = "string" /\ lv.t # "LTString"
       \/ Kind(t) \in NumberKinds /\ lv.t # "LTNumber"
       \/ Kind(t) = "bool" /\ lv.t # "LTBool"

\* C13: Get returns ErrNotFound when the global is nil and ErrValidation
\* when a string, number or boolean field of the target is given a value of
\* another type, and in both cases writes no field of the target.
C13_GetErrors ==
    getOut.done =>
        /\ (luaGlobal.t = "LTNil" =>
               getOut.code = "ErrNotFound" /\ tgtVals = OldVals(tgtType))
        /\ (/\ luaGlobal.t = "LTTable"
            /\ \E i \in 1..Len(tgtType.fields) :
                   Mismatch(RawGetString(luaGlobal, tgtType.fields[i].name),
                            tgtType.fields[i].type)
            => getOut.code = "ErrValidation" /\ tgtVals = OldVals(tgtType))

\* Every value of lv has its counterpart of the type t in gv.
RECURSIVE Bound(_, _, _)
Bound(lv, t, gv) ==
    CASE Kind(t) \in {"slice", "map"} ->
             /\ lv.t = "LTTable"
             /\ Len(gv.elems) + Len(gv.entries) = Len(lv.arr) + Len(lv.hash)
      [] Kind(t) = "struct" ->
             /\ lv.t = "LTTable"
             /\ \A j \in 1..Len(t.fields) :
                    RawGetString(lv, t.fields[j].name).t # "LTNil" =>
                        Bound(RawGetString(lv, t.fields[j].name),
                              t.fields[j].type, gv.elems[j])
      [] Kind(t) = "interface" ->
             IF lv.t = "LTTable"
             THEN Len(gv.elems) + Len(gv.entries)
                      = Len(lv.arr) + Len(lv.hash)
             ELSE gv.s = lv.s
      [] OTHER -> gv.k = Kind(t) /\ gv.s = lv.s

\* C14: when Get returns nil, every value of the table bound to a field of
\* the target, every element of a table bound to a slice or map field
\* included, has been converted to the type of the field.
C14_GetTypeSafe ==
    getOut.done /\ getOut.err = "nil" =>
        \A i \in 1..Len(tgtType.fields) :
            RawGetString(luaGlobal, tgtType.fields[i].name).t # "LTNil" =>
                Bound(RawGetString(luaGlobal, tgtType.fields[i].name),
                      tgtType.fields[i].type, tgtVals[i])

--------------------------------------------------------------------------
\* Properties of RegisterFunctionTable.

SetAt(log) == CHOOSE i \in 1..Len(log) : log[i][1] = "SetGlobal"

WasSet(log) == \E i \in 1..Len(log) : log[i][1] = "SetGlobal"

BeforeExecFailed(log) ==
    \E i \in 1..Len(log) : log[i][1] = "BeforeExec" /\ log[i][3] = "error"

HookOf(e) == <<e[1], e[2]>>

--------------------------------------------------------------------------
\* Properties of RegisterLuaFunctionWithOptions.

\* The names of the list that name a middleware of the map, in the order of
\* the list.
NamedMiddlewares ==
    LET Named(n) == n \in middlewareMap
    IN  SelectSeq(optFn.mw, Named)

WithoutAfterCall(s) ==
    LET NotAfter(e) == e # "AfterCall"
    IN  SelectSeq(s, NotAfter)

\* C16: a call runs BeforeCall first, then the middlewares named in
\* opts.Middleware in the listed order, then the function; when BeforeCall
\* returns an error neither the middlewares nor the function run and a Lua
\* error is raised.
C16_WrapperOrder ==
    ocPc = "done" =>
        IF optFn.before /\ ocBeforeErr
        THEN ocOrder = <<"BeforeCall">> /\ ocResult = "LuaError"
        ELSE WithoutAfterCall(ocOrder)
                 = (IF optFn.before THEN <<"BeforeCall">> ELSE <<>>)
                       \o NamedMiddlewares \o <<"fn">>

C16_Witness ==
    /\ ocPc = "done"
    /\ ocOrder = <<"BeforeCall", "logging", "metrics", "fn">>
    /\ ocResult = "ok"

--------------------------------------------------------------------------
\* Properties of ComposeFunctions.

\* The calls that the composition of fs makes on args, and its result, when
\* every function returns.
RECURSIVE ChainCalls(_, _)
ChainCalls(fs, args) ==
    IF fs = <<>> THEN <<>>
    ELSE <<<<Head(fs), args>>>>
             \o ChainCalls(Tail(fs), <<callByParam(Head(fs), args).val>>)

RECURSIVE ChainResult(_, _)
ChainResult(fs, args) ==
    IF fs = <<>> THEN args
    ELSE ChainResult(Tail(fs), <<callByParam(Head(fs), args).val>>)

RECURSIVE ChainFails(_, _)
ChainFails(fs, args) ==
    /\ fs # <<>>
    /\ \/ Head(fs) = "missing"
       \/ callByParam(Head(fs), args).err
       \/ ChainFails(Tail(fs), <<callByParam(Head(fs), args).val>>)

\* C17 as stated: with two names or more ComposeFunctions registers a
\* function that calls f1 with the caller's arguments, every following
\* function with the single result of the one before, and returns the
\* result of fn; with fewer it returns ErrInvalidType and registers nothing.
C17_ComposeAlways ==
    /\ IF Len(cmpCall.funcs) >= 2
       THEN cmpCall.result = "nil" /\ composed.funcs = cmpCall.funcs
       ELSE cmpCall.result = "ErrInvalidType" /\ ~composed.registered
    /\ (ccPc = "done" =>
           /\ ccLog = ChainCalls(composed.funcs, ccArgs)
           /\ ccVal = ChainResult(composed.funcs, ccArgs))

\* C17, amended: the same with a non-empty name and as long as every name
\* is a global function that returns; an empty name is an ErrInvalidType
\* error too, and a name that is no global or a function that fails ends
\* the call with a Lua error.
C17_Compose ==
    /\ IF Len(cmpCall.funcs) >= 2 /\ cmpCall.name # ""
       THEN cmpCall.result = "nil" /\ composed.funcs = cmpCall.funcs
       ELSE cmpCall.result = "ErrInvalidType" /\ ~composed.registered
    /\ (ccPc = "done" =>
           IF ChainFails(composed.funcs, ccArgs)
           THEN ccResult = "LuaError"
           ELSE /\ ccResult = "ok"
                /\ ccLog = ChainCalls(composed.funcs, ccArgs)
                /\ ccVal = ChainResult(composed.funcs, ccArgs))

C17_Witness ==
    /\ ccPc = "done"
    /\ composed.funcs = <<"double", "addOne">>
    /\ ccArgs = <<5>>
    /\ ccResult = "ok"
    /\ ccVal = <<11>>

--------------------------------------------------------------------------
\* Properties of ActivateEnvironment.

\* The globals that a step sets.
StepSets(step, env) ==
    IF step = "os.Environ" THEN loadEnvVars(env.EnvPrefix)
    ELSE FileAssigns(step)

\* The base file, the environment file, the include paths as listed, the
\* environment variables.
StepsInOrder(env) ==
    (IF env.BaseConfig # "" THEN <<env.BaseConfig>> ELSE <<>>)
        \o (IF env.EnvConfig # "" THEN <<env.EnvConfig>> ELSE <<>>)
        \o env.IncludePaths
        \o (IF env.EnvPrefix # "" THEN <<"os.Environ">> ELSE <<>>)

\* The last step of steps that sets k, 0 when none does.
LastSetter(steps, env, k) ==
    LET is == {i \in 1..Len(steps) : k \in StepSets(steps[i], env)}
    IN  IF is = {} THEN 0 ELSE CHOOSE i \in is : \A j \in is : j <= i

\* C18: when ActivateEnvironment returns nil, the base file, the
\* environment file, the include paths in their order and the environment
\* variables have been loaded in this order, every global holds what the
\* last step that sets it gave it, and GetActiveEnvironment returns the
\* name.
C18_ActivateOrder ==
    aePc = "done" /\ aeResult = "nil" =>
        LET env == environments[aeName]
            steps == StepsInOrder(env)
        IN  /\ aeLog = steps
            /\ \A k \in EnvKeys :
                   luaVars[k] = IF LastSetter(steps, env, k) = 0
                                THEN aeStart[k]
                                ELSE steps[LastSetter(steps, env, k)]
            /\ GetActiveEnvironment = aeName

C18_Witness ==
    /\ aePc = "done"
    /\ aeResult = "nil"
    /\ aeLog = <<"base.lua", "dev.lua", "inc1.lua", "os.Environ">>
    /\ luaVars["config"] = "dev.lua"
    /\ luaVars["debug"] = "os.Environ"
    /\ luaVars["extra"] = "inc1.lua"
--------------------------------------------------------------------------
\* Properties of SchemaValidator.Validate.

\* A rule of the validator v is violated by the struct val: a required
\* field is missing or zero, a string field does not match its pattern, an
\* integer or float field lies outside its range, the custom validator
\* rejects its field, or the nested validator has a violated rule in a
\* struct field.
RECURSIVE RuleViolated(_, _)
RuleViolated(v, val) ==
    \/ \E field \in v.Required :
          \/ \A i \in 1..Len(val.fields) : val.fields[i].name # field
          \/ \E i \in 1..Len(val.fields) :
                val.fields[i].name = field /\ IsZero(val.fields[i])
    \/ \E i \in 1..Len(val.fields) :
          LET f == val.fields[i]
          IN  \/ /\ f.name \in DOMAIN v.Patterns
                 /\ f.kind = "string"
                 /\ ~MatchString(v.Patterns[f.name], f.str)
              \/ /\ f.name \in DOMAIN v.Ranges
                 /\ f.kind \in {"int", "uint"}
                 /\ \/ f.num < v.Ranges[f.name].Min
                    \/ f.num > v.Ranges[f.name].Max
              \/ /\ f.name \in DOMAIN v.CustomValidators
                 /\ customValidator(v.CustomValidators[f.name], f) # "nil"
              \/ /\ f.name \in DOMAIN v.Nested
                 /\ f.kind = "struct"
                 /\ RuleViolated(v.Nested[f.name], f)

\* C19: for a struct or a pointer to a struct, Validate returns an error
\* when a rule of the validator is violated and nil exactly when none is.
C19_Validate ==
    svResult # "none" /\ svCfg.kind \in {"struct", "ptr"} =>
        (svResult = "nil" <=> ~RuleViolated(sv, svCfg))
--------------------------------------------------------------------------
\* Properties of the Generator.

\* The places of the buffer where a line begins.
LineStarts == {p \in 1..Len(buffer) : p = 1 \/ buffer[p - 1] = "\n"}

\* The line that begins at p is indented by d levels: d pieces of four
\* spaces and then something else.
IndentedBy(p, d) ==
    /\ p + d <= Len(buffer)
    /\ \A k \in 0..(d - 1) : buffer[p + k] = "    "
    /\ buffer[p + d] # "    "

\* Every line starts with four spaces per level of the depth it was begun
\* at.
LinesIndented ==
    /\ Len(began) = Cardinality(LineStarts)
    /\ \A p \in LineStarts :
          IndentedBy(p, began[Cardinality({q \in LineStarts : q <= p})])

\* What a call that returns does to the depth and what EndTable writes.
DepthStep ==
    ~gCall'.panic =>
        /\ gCall'.method \in {"Table", "Function"} => indent' = indent + 1
        /\ gCall'.method \in {"EndTable", "EndFunction"} =>
              indent' = indent - 1
        /\ gCall'.method \in {"Field", "Array", "Comment", "Raw"} =>
              indent' = indent
        /\ gCall'.method = "EndTable" =>
              buffer' = buffer \o Repeat("    ", indent') \o <<"}">>
                          \o (IF indent' = 0 THEN <<"\n">> ELSE <<",", "\n">>)

\* C20: Table and Function raise the depth by one, EndTable and
\* EndFunction lower it by one, every line of the output starts with four
\* spaces per level of depth, and EndTable writes "}" and a newline when it
\* returns to depth zero and "}," and a newline otherwise.
C20_Indented == [](~gCall.panic => LinesIndented) /\ [][DepthStep]_vars
--------------------------------------------------------------------------
\* Properties of LoadFile with a memory limit.

LoadFileDone == opKind = "LoadFile" /\ lfPc = "done"
\* MaxMemory is greater than zero and below 100 KB.
BelowMinimum == sandbox.MaxMemory > 0 /\ sandbox.MaxMemory \div 1024 < 100
FileExecuted == \E i \in DOMAIN hookCalls : hookCalls[i] = <<"exec", 0>>
AfterLoadRan == \E i \in DOMAIN hookCalls : hookCalls[i][1] = "AfterLoad"

\* C21 as it is stated: with MaxMemory greater than zero and below 100 KB
\* every LoadFile returns ErrSandbox without executing the file or running
\* an AfterLoad hook, and with MaxMemory zero no limit is set and LoadFile
\* does not return ErrSandbox.
C21_SmallMemoryAlways ==
    LoadFileDone =>
        /\ BelowMinimum =>
              lfResult = "ErrSandbox" /\ ~FileExecuted /\ ~AfterLoadRan
        /\ sandbox.MaxMemory = 0 => lfResult # "ErrSandbox" /\ memLimit = 0

\* C21, amended: with MaxMemory greater than zero and below 100 KB a
\* LoadFile executes no part of the file, runs no AfterLoad hook and
\* returns ErrSandbox, unless a BeforeLoad hook has failed before, which
\* makes it return ErrExecution; with MaxMemory zero no limit is set and
\* LoadFile does not return ErrSandbox; with any other MaxMemory the limit
\* is MaxMemory / 1024 once the sandbox has been applied.
C21_SmallMemory ==
    LoadFileDone =>
        /\ BelowMinimum =>
              /\ ~FileExecuted /\ ~AfterLoadRan
              /\ lfResult \in {"ErrSandbox", "ErrExecution"}
              /\ lfResult = "ErrExecution" =>
                    /\ hookCalls # <<>>
                    /\ hookCalls[Len(hookCalls)][1] = "BeforeLoad"
              /\ memLimit = 0
        /\ sandbox.MaxMemory = 0 => lfResult # "ErrSandbox" /\ memLimit = 0
        /\ ~BelowMinimum => lfResult # "ErrSandbox"
        /\ FileExecuted /\ sandbox.MaxMemory > 0 =>
              memLimit = sandbox.MaxMemory \div 1024

\* A LoadFile with a limit just below the minimum has run its BeforeLoad
\* hook and returned ErrSandbox.
C21_Witness ==
    /\ LoadFileDone
    /\ sandbox.MaxMemory = MinMemoryKB * 1024 - 1
    /\ lfResult = "ErrSandbox"
    /\ hookCalls = <<<<"BeforeLoad", 1>>>>
    /\ Len(hooks["AfterLoad"]) = 1
--------------------------------------------------------------------------
\* Properties of the hooks of LoadFile.

\* The hooks of every type have run in the order of their registration.
HooksInOrder ==
    \A t \in HookTypes :
        LET ran == SelectSeq(hookCalls, LAMBDA e : e[1] = t)
        IN  ran = HooksRun(t, Len(ran))

\* The Lua state is as it was: the sandbox has not been applied.
StateKept == UNCHANGED <<G, memLimit, preloadNil>>
\* The hook that was invoked in this step returned an error.
HookFailed(pc) ==
    lfPc = pc /\ lfPc' = "done" /\ Len(hookCalls') = Len(hookCalls) + 1

HooksStep ==
    /\ lfPc' = "before" => StateKept
    /\ HookFailed("before") =>
          /\ lfResult' = "ErrExecution"
          /\ StateKept
          /\ \A i \in DOMAIN hookCalls' : hookCalls'[i][1] = "BeforeLoad"
    /\ HookFailed("after") => lfResult' \notin {"nil", "none"}
    /\ lfPc = "dofile" /\ lfPc' = "done" =>
          /\ lfResult' = "ErrExecution"
          /\ \A i \in DOMAIN hookCalls' : hookCalls'[i][1] = "BeforeLoad"
    /\ lfPc = "done" /\ lfPc' = "done" =>
          hookCalls' = hookCalls /\ lfResult' = lfResult /\ StateKept

\* C22: the hooks of one type run in the order of their registration and
\* no hook runs after one that returned an error; a failing BeforeLoad hook
\* makes LoadFile return ErrExecution with the sandbox not applied, the
\* file not executed and no AfterLoad hook run; when the execution of the
\* file fails no AfterLoad hook runs.
C22_HooksStop == []HooksInOrder /\ [][HooksStep]_vars

\* The first of two BeforeLoad hooks has failed with an AfterLoad hook
\* registered, and LoadFile has returned ErrExecution.
C22_Witness ==
    /\ LoadFileDone
    /\ lfResult = "ErrExecution"
    /\ Len(lfStartHooks["BeforeLoad"]) = 2
    /\ Len(lfStartHooks["AfterLoad"]) = 1
    /\ hookCalls = <<<<"BeforeLoad", 1>>>>
--------------------------------------------------------------------------
\* Properties of RegisterHook during a run of hooks.

\* runHooks is going through its copy of the hooks.
RunUnderway == opKind = "LoadFile" /\ lfPc \in {"before", "after"}
RunTypeOf(pc) == IF pc = "before" THEN "BeforeLoad" ELSE "AfterLoad"
Registers == \E t \in HookTypes : Len(hooks'[t]) > Len(hooks[t])
Invokes ==
    /\ Len(hookCalls') = Len(hookCalls) + 1
    /\ hookCalls'[Len(hookCalls')][1] # "exec"

RunStep ==
    \* a registration leaves the run as it is
    /\ Registers =>
          lfSnap' = lfSnap /\ hookCalls' = hookCalls /\ lfPc' = lfPc
    \* a run starts with every hook of its type registered so far
    /\ lfPc' \in {"before", "after"} /\ lfPc' # lfPc =>
          lfSnap' = hooks[RunTypeOf(lfPc')]
    \* the hook invoked is the next of the run
    /\ Invokes =>
          /\ lfSnap # <<>>
          /\ hookCalls'[Len(hookCalls')] = Head(lfSnap)
          /\ lfSnap' \in {Tail(lfSnap), <<>>}
    \* a run that ends without a failing hook has invoked all of them
    /\ RunUnderway /\ lfPc' # lfPc /\ ~Invokes => lfSnap = <<>>

--------------------------------------------------------------------------
\* Properties of one reload.

\* OnReload is called in this step.
CallsOnReload == onReloadArg' # onReloadArg /\ onReloadArg' # "none"

ReloadStep ==
    \* one path is loaded at a time, and none after a failure
    /\ reloadLog' # reloadLog /\ reloadLog' # <<>> =>
          /\ reloadErr = "nil"
          /\ Len(reloadLog') = Len(reloadLog) + 1
          /\ SubSeq(reloadLog', 1, Len(reloadLog)) = reloadLog
    \* OnReload is called once, when the loop is over
    /\ CallsOnReload =>
          /\ onReloadArg = "none"
          /\ reloadPc = "loading" /\ reloadPc' = "called"
          /\ onReloadArg' = reloadErr
    /\ reloadPc = "loading" /\ reloadPc' # "loading" =>
          reloadPc' = "called" /\ (onReloadSet => CallsOnReload)
    /\ reloadPc = "called" => ~CallsOnReload /\ reloadPc' \in {"called", "idle"}

\* C25: a reload loads the paths it copied one after another, each once,
\* and none after the first whose LoadFile fails; when it has loaded them
\* it calls OnReload, if set, exactly once, with that error or with nil
\* when every path loaded.
C25_ReloadStops ==
    /\ [](reloadPc # "idle" =>
             /\ SeqSet(reloadLog) \subseteq reloadSet
             /\ Cardinality(SeqSet(reloadLog)) = Len(reloadLog))
    /\ [](reloadPc = "called" =>
             /\ reloadErr = "nil" => SeqSet(reloadLog) = reloadSet
             /\ onReloadArg = IF onReloadSet THEN reloadErr ELSE "none")
    /\ [][ReloadStep]_vars

\* A reload of two paths whose first LoadFile failed: the other path was
\* not loaded and OnReload got the error.
C25_Witness ==
    /\ reloadPc = "called"
    /\ Cardinality(reloadSet) = 2
    /\ Len(reloadLog) = 1
    /\ onReloadArg = "err"
--------------------------------------------------------------------------
\* Properties of Close.

\* C29: no call of Close panics, a second call on the same watcher
\* included.
C29_SecondCloseReturns == ~closePanicked
--------------------------------------------------------------------------
\* Properties of the active environment.

\* A call of ActivateEnvironment returns in this step.
ActivationEnds == aePc # "done" /\ aePc' = "done"

ActiveStep ==
    /\ ActivationEnds /\ aeResult' = "nil" => GetActiveEnvironment' = aeName'
    /\ ~(ActivationEnds /\ aeResult' = "nil") =>
          GetActiveEnvironment' = GetActiveEnvironment
    /\ ActivationEnds /\ aeName' \notin DOMAIN environments =>
          aeResult' # "nil"
    /\ ActivationEnds /\ aeSteps' # <<>> => aeResult' # "nil"

\* C26: the active environment is empty at first, becomes the name given
\* to ActivateEnvironment when that call returns nil and changes at no
\* other moment; a call with an unregistered name, or one that has not
\* loaded all its files, returns an error.
C26_ActiveEnvironment ==
    /\ [](GetActiveEnvironment \in {""} \cup DOMAIN environments)
    /\ [][ActiveStep]_vars

\* With dev active, the activation of prod has failed at one of its
\* files: dev is still the active environment.
C26_Witness ==
    /\ aePc = "done"
    /\ aeName = "prod"
    /\ aeResult = "failed to load"
    /\ aeLog # <<>>
    /\ GetActiveEnvironment = "dev"
--------------------------------------------------------------------------
\* Properties of Call.

\* C27: a Call that returns nil as its error returns the values that the
\* Lua function returned, converted, in order, and leaves on the stack the
\* values that were on it before the call.
C27_CallReturns ==
    clSeen.err = "nil" =>
        /\ clSeen.result = callResults(clSeen.rets)
        /\ lstack = clSeen.before
--------------------------------------------------------------------------
\* Properties of the registration in a namespace.

RECURSIVE NsLookup(_, _, _, _)
\* The table that the names parts[i:] lead to from the table t in the
\* tables h: 0 when a name is missing, -1 when a name holds a value that
\* is no table.
NsLookup(h, t, parts, i) ==
    IF i > Len(parts) THEN t
    ELSE LET next == h[t][parts[i]]
         IN  IF next = NsNil THEN 0
             ELSE IF next.t # "table" THEN -1
             ELSE NsLookup(h, next.id, parts, i + 1)

NamespacedCall ==
    /\ nsSeen.err # "none"
    /\ nsSeen.namespace # ""
    /\ nsSeen.name # ""
    /\ ~nsSeen.fnNil

NsBlocked ==
    NsLookup(nsSeen.before, NsGlobals, NsSplit(nsSeen.namespace), 1) = -1

\* The function and every alias are in the table the namespace leads to:
\* the table it led to before the call, or else the one created for it.
NsPlaced ==
    LET parts == NsSplit(nsSeen.namespace)
        old == NsLookup(nsSeen.before, NsGlobals, parts, 1)
        last == IF old > 0 THEN old
                ELSE NsLookup(tables, NsGlobals, parts, 1)
    IN  /\ last > 0
        /\ tables[last][nsSeen.name] = NsFn
        /\ \A i \in 1..Len(nsSeen.aliases) :
              tables[last][nsSeen.aliases[i]] = NsFn

\* C30: a registration under a namespace whose root or a later name held a
\* value that is no table returns ErrInvalidType and leaves the globals as
\* they were; any other registration under a namespace returns nil, and
\* afterwards the namespace leads through tables to a table that holds
\* the function under its name and under each alias.
C30_Namespace ==
    NamespacedCall =>
        IF NsBlocked
        THEN nsSeen.err = "ErrInvalidType" /\ tables = nsSeen.before
        ELSE nsSeen.err = "nil" /\ NsPlaced
--------------------------------------------------------------------------
\* Properties of the PluginManager.

\* C23: when CallPluginFunction runs an exported function of a plugin, the
\* Lua state of the plugin is open.
C23_OpenState ==
    cpSeen.ran => cpSeen.open

\* C24: every read and every write of pm.plugins is made by a goroutine
\* that holds pm.mu.
C24_PluginsLocked ==
    pmAccess.held

====
